---------------------------- MODULE Spec2Model ----------------------------
(***************************************************************************)
(* Live engine and position manager of hyprterminal.                       *)
(*                                                                         *)
(* The engine keeps a table  id -> *liveStrategyState  guarded by a        *)
(* reader/writer mutex.  Every successful StartStrategy allocates a new    *)
(* liveStrategyState object and launches one goroutine (Engine.run) on     *)
(* it.  The goroutine, StopStrategy's code after the unlock, and           *)
(* GetRunningStrategies all touch the object's Position field and the      *)
(* Position objects it points to without further synchronisation, so      *)
(* these are modelled one memory access (or one blocking call) per step.  *)
(*                                                                         *)
(* Floating point prices are small integers; percentages are compared by   *)
(* cross multiplication, so no rounding is introduced.  The strategy       *)
(* factor is carried times ten (2.5 is 25).                                *)
(***************************************************************************)
EXTENDS Integers, Sequences, FiniteSets, TLC

(***************************************************************************)
(* Bounds of the model.                                                    *)
(***************************************************************************)
\* liveStrategyState objects ever allocated (successful StartStrategy calls)
MaxInst == 2
\* candle timestamps the candle source reports are 1..MaxTs
MaxTs == 2
\* stimuli from outside the engine over a whole run: StartStrategy,
\* StopStrategy and GetRunningStrategies calls, and timer ticks
MaxEvents == 4
\* signals handed to one Backtester.Run call
MaxSignals == 3
\* candles handed to one Backtester.Run call
MaxCandles == 3
\* positions of a ledger handed to calculateMetrics
MaxLedger == 3
\* calls of the registry over a whole run
MaxRegistryCalls == 3
\* candles at the end of a window whose closes are free to cross the bands
MaxTail == 3

(***************************************************************************)
(* Input sets.                                                             *)
(***************************************************************************)
Ids == {"a", "b"}
StrategyIDs == {"max-trend", "nope"}
Symbols == {"BTC"}
Intervals == {"1m"}
Prices == {100, 110}
\* timestamps of the latest candle of a fetched window
Timestamps == 1..MaxTs
SignalTypes == {"Long", "Short", "Other"}
\* the raw parameter map: the key "factor" is missing, its value is no number,
\* or its value is a number (times ten)
ParamMaps ==
  { [kind |-> "missing", val |-> 0], [kind |-> "text", val |-> 0],
    [kind |-> "num", val |-> 0], [kind |-> "num", val |-> 25],
    [kind |-> "num", val |-> 101] }
Configs ==
  { [PositionSize |-> 2, TradeDirection |-> "both",
     TakeProfitPercent |-> 5, StopLossPercent |-> 5],
    [PositionSize |-> 2, TradeDirection |-> "long",
     TakeProfitPercent |-> 0, StopLossPercent |-> 0] }

\* time.Now().UnixMilli(): one abstract instant
Now == 1

Objs == 1..MaxInst
NoObj == 0
NilPos == 0

VARIABLES
  strategies,   \* Engine.strategies: id -> object, NoObj when absent
  nInst,        \* number of liveStrategyState objects allocated so far
  inst,         \* the liveStrategyState objects
  positions,    \* per object: the exchange.Position objects opened for it
  task,         \* per object: the goroutine Engine.run and its locals
  stop,         \* per object: the StopStrategy call that removed it
  tickPending,  \* per object: a tick is buffered in ticker.C
  events,       \* calls and timer ticks so far
  reader,       \* the GetRunningStrategies call in progress
  lastCall,     \* history: the last StartStrategy/StopStrategy and its result
  ghost,        \* history, per Position: what the adapter answered to closes
  stopAll,      \* the StopAllStrategies call in progress
  bt,           \* the Backtester.Run call in progress: arguments and locals
  reg           \* the strategy registry, its lock and the calls in progress

vars == <<strategies, nInst, inst, positions, task, stop, tickPending, events,
          reader, lastCall, ghost, stopAll, bt, reg>>

NoConfig == [PositionSize |-> 0, TradeDirection |-> "", TakeProfitPercent |-> 0,
             StopLossPercent |-> 0]
NoStrategy == [ID |-> "", Factor |-> 0]

\* a slot of inst that no StartStrategy has allocated yet
FreeInst ==
  [ID |-> "", Strategy |-> NoStrategy, Config |-> NoConfig, Symbol |-> "",
   Interval |-> "", IsRunning |-> FALSE, Position |-> NilPos,
   LastCandleTime |-> 0, LastVisualization |-> "nil", cancelled |-> FALSE]

IdleTask == [pc |-> "none", side |-> "", price |-> 0, reason |-> "",
             pos |-> NilPos, ret |-> ""]
\* mid is history: StopStrategy cancelled the task in the middle of a poll
IdleStop == [pc |-> "none", price |-> 0, reason |-> "", pos |-> NilPos,
             mid |-> FALSE]
\* a RunningStrategyInfo with every field at its zero value
NoInfo ==
  [ID |-> "", StrategyID |-> "", Symbol |-> "", Interval |-> "",
   IsRunning |-> FALSE, Config |-> NoConfig, HasPosition |-> FALSE,
   PositionSide |-> "", PositionSize |-> 0, EntryPrice |-> 0]
IdleReader == [pc |-> "idle", seen |-> {}, obj |-> NoObj, cur |-> NoInfo,
               result |-> <<>>]
NoCall == [op |-> "", id |-> "", err |-> ""]
\* no backtest is running
IdleBacktest == [pc |-> "idle"]
\* factories that can be registered
Factories == {"maxtrend.New", "other.New"}
\* goroutines that call the registry
Callers == {"c1", "c2"}
\* no call of the registry in progress
IdleCaller == [pc |-> "idle", op |-> "", id |-> "", factory |-> "",
               result |-> <<>>]
\* the registry after the init functions of the strategy packages: max-trend
\* is registered, nobody holds the lock; made counts the strategies that
\* factories have produced, calls the calls of the registry so far
StartRegistry ==
  [strategies |-> [id \in StrategyIDs |->
                     IF id = "max-trend" THEN "maxtrend.New" ELSE "none"],
   writer |-> "", readers |-> {}, th |-> [c \in Callers |-> IdleCaller],
   made |-> 0, calls |-> 0]
\* ids is the local slice; cur is the instance whose StopStrategy is running;
\* objs, n0 and missed are history: the instances in the table and the number
\* of instances ever started when the ids were collected, and the ids whose
\* StopStrategy found nothing
IdleStopAll == [pc |-> "idle", ids |-> {}, cur |-> NoObj, objs |-> {}, n0 |-> 0,
                missed |-> {}]

Init ==
  /\ strategies = [i \in Ids |-> NoObj]
  /\ nInst = 0
  /\ inst = [o \in Objs |-> FreeInst]
  /\ positions = [o \in Objs |-> <<>>]
  /\ task = [o \in Objs |-> IdleTask]
  /\ stop = [o \in Objs |-> IdleStop]
  /\ tickPending = [o \in Objs |-> FALSE]
  /\ events = 0
  /\ reader = IdleReader
  /\ lastCall = NoCall
  /\ ghost = [o \in Objs |-> <<>>]
  /\ stopAll = IdleStopAll
  /\ reg = StartRegistry
  /\ bt = IdleBacktest


(***************************************************************************)
(* Strategy registry and the max-trend strategy's parameter checks.        *)
(***************************************************************************)
\* the identifiers registered at program start
Registry == {"max-trend"}

\* strategy.Get: the factory's product, or an error
RegistryGet(sid) == IF sid \in Registry THEN "ok" ELSE "NotFound"

\* Strategy.ValidateParams: factor present, a number, within 0.1 .. 10.0
ValidateParams(p) ==
  IF p.kind = "missing" THEN "missing required parameter: factor"
  ELSE IF p.kind # "num" THEN "factor must be a number"
  ELSE IF p.val < 1 \/ p.val > 100 THEN "factor must be between 0.1 and 10.0"
  ELSE "ok"

\* Strategy.Initialize on a fresh strategy: stores the factor, never fails
Initialize(sid, p) == [ID |-> sid, Factor |-> p.val]

(***************************************************************************)
(* The instance table and its mutex.                                       *)
(***************************************************************************)
\* strategiesMu is read-locked from RLock to the return of GetRunningStrategies
RLockHeld == reader.pc # "idle"

\* a table that writers enter without regard to readers
NoLock == TRUE

\* strategiesMu.Lock() can be taken: no reader holds the mutex.  The writers'
\* critical sections make no blocking call and are single steps.
CanLock == ~RLockHeld

Exists(id) == strategies[id] # NoObj

Table == {id \in Ids : Exists(id)}

Allocated == 1..nInst

\* one more call or tick arrives
Event == events < MaxEvents /\ events' = events + 1

\* the positions of a task inside HandleSignal, CheckTPSL or ClosePosition
MidPoll == {"open", "set", "cp_get", "cp_exch", "cp_mark", "cp_pnl"}

(***************************************************************************)
(* Engine.StartStrategy                                                    *)
(***************************************************************************)
\* a StartStrategy that leaves a call with an error drops the table entry of
\* its id on the way out
StartFailsDropsEntry(id, e) ==
  /\ lastCall' = [op |-> "Start", id |-> id, err |-> e]
  /\ strategies' = [strategies EXCEPT ![id] = NoObj]
  /\ UNCHANGED <<nInst, inst, positions, task, stop, tickPending, reader,
                 ghost, stopAll, bt, reg>>

\* lines 50-52, 55-57 and 65-67: return fmt.Errorf(...)
StartFails(id, e) ==
  /\ lastCall' = [op |-> "Start", id |-> id, err |-> e]
  /\ UNCHANGED <<strategies, nInst, inst, positions, task, stop, tickPending,
                 reader, ghost, stopAll, bt, reg>>

StartStrategy(id, sid, sym, itv, p, cfg) ==
  /\ Event
  /\ IF RegistryGet(sid) # "ok" THEN StartFails(id, "UnknownStrategy")
     ELSE IF ValidateParams(p) # "ok" THEN StartFails(id, "InvalidParameter")
     ELSE
       /\ CanLock
       /\ IF Exists(id) THEN StartFails(id, "AlreadyRunning")
          ELSE
            /\ nInst < MaxInst
            /\ LET o == nInst + 1 IN
                 /\ nInst' = o
                 /\ inst' = [inst EXCEPT ![o] =
                              [FreeInst EXCEPT !.ID = id,
                                               !.Strategy = Initialize(sid, p),
                                               !.Config = cfg,
                                               !.Symbol = sym,
                                               !.Interval = itv,
                                               !.IsRunning = TRUE]]
                 /\ strategies' = [strategies EXCEPT ![id] = o]
                 \* go e.run(state)
                 /\ task' = [task EXCEPT ![o] = [IdleTask EXCEPT !.pc = "init"]]
            /\ lastCall' = [op |-> "Start", id |-> id, err |-> "ok"]
            /\ UNCHANGED <<positions, stop, tickPending, reader, ghost,
                           stopAll, bt, reg>>

(***************************************************************************)
(* Engine.StopStrategy: the critical section.  What follows the unlock     *)
(* (lines 106-110) runs as the steps StopCheck .. StopClosePnL below.      *)
(***************************************************************************)
\* a StopStrategy that swallows the miss and returns nil
StopMissSilent(id) ==
  /\ lastCall' = [op |-> "Stop", id |-> id, err |-> "ok"]
  /\ UNCHANGED <<strategies, nInst, inst, positions, task, stop, tickPending,
                 reader, ghost, bt, reg>>

\* lines 96-99: the id is not in the table
StopMiss(id) ==
  /\ lastCall' = [op |-> "Stop", id |-> id, err |-> "NotFound"]
  /\ UNCHANGED <<strategies, nInst, inst, positions, task, stop, tickPending,
                 reader, ghost, bt, reg>>

\* a StopStrategy that cancels the instance and leaves it in the table
StopHitKeepsEntry(id) ==
  LET o == strategies[id] IN
  /\ inst' = [inst EXCEPT ![o].IsRunning = FALSE, ![o].cancelled = TRUE]
  /\ stop' = [stop EXCEPT ![o] =
       [IdleStop EXCEPT !.pc = "check", !.mid = task[o].pc \in MidPoll]]
  /\ lastCall' = [op |-> "Stop", id |-> id, err |-> "ok"]
  /\ UNCHANGED <<strategies, nInst, positions, task, tickPending, reader,
                 ghost, bt, reg>>

\* lines 101-104 and 112: the id is in the table
StopHit(id) ==
  LET o == strategies[id] IN
  /\ inst' = [inst EXCEPT ![o].IsRunning = FALSE, ![o].cancelled = TRUE]
  /\ strategies' = [strategies EXCEPT ![id] = NoObj]
  /\ stop' = [stop EXCEPT ![o] =
       [IdleStop EXCEPT !.pc = "check", !.mid = task[o].pc \in MidPoll]]
  /\ lastCall' = [op |-> "Stop", id |-> id, err |-> "ok"]
  /\ UNCHANGED <<nInst, positions, task, tickPending, reader, ghost, bt, reg>>

StopStrategy(id) ==
  /\ Event
  /\ CanLock
  /\ IF ~Exists(id) THEN StopMiss(id) ELSE StopHit(id)
  /\ UNCHANGED stopAll

(***************************************************************************)
(* The candle source and the strategy, as the engine sees them.            *)
(***************************************************************************)
\* A fetched window: the latest candle's timestamp and close, and what the
\* bound strategy computes from the window: n = "short" is a window below the
\* warm-up length (no signals, no visualization); otherwise sig tells whether
\* the signal list is empty ("none"), ends before the last candle ("stale"),
\* or ends on the last candle with the given type.
Windows ==
  [ts : Timestamps, close : Prices, n : {"short"}, sig : {"none"}]
  \cup [ts : Timestamps, close : Prices, n : {"full"},
        sig : {"none", "stale"} \cup SignalTypes]

(***************************************************************************)
(* Engine.run                                                              *)
(***************************************************************************)
\* the timer delivers a tick.  ticker.C holds one tick and a second one is
\* dropped, which changes nothing: only delivered ticks are steps.
Tick(o) ==
  /\ task[o].pc \notin {"none", "exited"}
  /\ ~tickPending[o]
  /\ Event
  /\ tickPending' = [tickPending EXCEPT ![o] = TRUE]
  /\ UNCHANGED <<strategies, nInst, inst, positions, task, stop, reader,
                 lastCall, ghost, stopAll, bt, reg>>

\* the deferred ticker.Stop() and state.cancel() of run
RunExit(o) ==
  /\ task' = [task EXCEPT ![o] = [IdleTask EXCEPT !.pc = "exited"]]
  /\ tickPending' = [tickPending EXCEPT ![o] = FALSE]

\* a run that takes its instance out of the table when the warm-up fetch fails
RunInitFailDropsEntry(o) ==
  /\ task[o].pc = "init"
  /\ RunExit(o)
  /\ inst' = [inst EXCEPT ![o].cancelled = TRUE, ![o].IsRunning = FALSE]
  /\ strategies' = [strategies EXCEPT ![inst[o].ID] = NoObj]
  /\ UNCHANGED <<nInst, positions, stop, events, reader,
                 lastCall, ghost, stopAll, bt, reg>>

\* lines 167-176: the warm-up fetch fails and run returns
RunInitFail(o) ==
  /\ task[o].pc = "init"
  /\ RunExit(o)
  /\ inst' = [inst EXCEPT ![o].cancelled = TRUE]
  /\ UNCHANGED <<strategies, nInst, positions, stop, events, reader,
                 lastCall, ghost, stopAll, bt, reg>>

\* lines 167-179: the warm-up fetch succeeds, with or without candles
RunInit(o) ==
  /\ task[o].pc = "init"
  /\ \/ inst' = inst  \* no candles
     \/ \E ts \in Timestamps : inst' = [inst EXCEPT ![o].LastCandleTime = ts]
  /\ task' = [task EXCEPT ![o].pc = "select"]
  /\ UNCHANGED <<strategies, nInst, positions, stop, tickPending, events,
                 reader, lastCall, ghost, stopAll, bt, reg>>

\* line 183: select takes the case <-state.ctx.Done()
RunCancelled(o) ==
  /\ task[o].pc = "select"
  /\ inst[o].cancelled
  /\ RunExit(o)
  /\ UNCHANGED <<strategies, nInst, inst, positions, stop, events, reader,
                 lastCall, ghost, stopAll, bt, reg>>

\* line 186: select takes the case <-ticker.C.  When both cases are ready
\* the Go runtime picks either.
RunTick(o) ==
  /\ task[o].pc = "select"
  /\ tickPending[o]
  /\ tickPending' = [tickPending EXCEPT ![o] = FALSE]
  /\ task' = [task EXCEPT ![o].pc = "poll"]
  /\ UNCHANGED <<strategies, nInst, inst, positions, stop, events, reader,
                 lastCall, ghost, stopAll, bt, reg>>

(***************************************************************************)
(* Engine.processCandle                                                    *)
(***************************************************************************)
\* lines 196-203: the fetch fails or returns no candles
ProcessCandleFail(o) ==
  /\ task[o].pc = "poll"
  /\ task' = [task EXCEPT ![o].pc = "select"]
  /\ UNCHANGED <<strategies, nInst, inst, positions, stop, tickPending,
                 events, reader, lastCall, ghost, stopAll, bt, reg>>

(***************************************************************************)
(* The exchange adapter, as the position manager sees it: every call is    *)
(* free to succeed or to fail.                                             *)
(***************************************************************************)
\* the Position an adapter returns from a successful OpenPosition
NewPosition(side, size) ==
  [Side |-> side, Size |-> size, IsOpen |-> TRUE, EntryPrice |-> 0,
   EntryTime |-> Now, ExitPrice |-> 0, ExitReason |-> "", ExitTime |-> 0,
   PnL |-> 0]

NewGhost == [closedOk |-> FALSE, closeFailed |-> FALSE]

(***************************************************************************)
(* position.Manager.ClosePosition, shared by the task and by StopStrategy. *)
(* th is the calling thread's record: th.price and th.reason are the       *)
(* arguments, th.pos is the local pos.                                     *)
(***************************************************************************)
\* lines 100-103: is there an open Position to close
NothingToClose(o) ==
  \/ inst[o].Position = NilPos
  \/ ~positions[o][inst[o].Position].IsOpen

\* lines 112-115
MarkClosed(pos, price, reason) ==
  [pos EXCEPT !.IsOpen = FALSE, !.ExitPrice = price, !.ExitReason = reason,
              !.ExitTime = Now]

\* lines 117-124 with the side test dropped
RealizedPnLOneSided(pos, price) ==
  (price - pos.EntryPrice) * pos.Size

\* lines 117-124
RealizedPnL(pos, price) ==
  IF pos.Side = "long" THEN (price - pos.EntryPrice) * pos.Size
  ELSE (pos.EntryPrice - price) * pos.Size

\* where the task continues when its ClosePosition call returns
TaskAfterClose(th) ==
  IF th.ret = "hs"
  THEN [th EXCEPT !.pc = "open", !.pos = NilPos, !.reason = "", !.ret = ""]
  ELSE [IdleTask EXCEPT !.pc = "select"]

\* where StopStrategy continues when its ClosePosition call returns
StopAfterClose(th) == [IdleStop EXCEPT !.pc = "done", !.mid = th.mid]

TaskCloseGet(o) ==
  /\ task[o].pc = "cp_get"
  /\ task' = [task EXCEPT ![o] =
       IF NothingToClose(o) THEN TaskAfterClose(task[o])
       ELSE [task[o] EXCEPT !.pc = "cp_exch", !.pos = inst[o].Position]]
  /\ UNCHANGED <<strategies, nInst, inst, positions, stop, tickPending,
                 events, reader, lastCall, ghost, stopAll, bt, reg>>

\* lines 106-110: the adapter's ClosePosition answers
TaskCloseExchange(o) ==
  /\ task[o].pc = "cp_exch"
  /\ \E ok \in BOOLEAN :
       IF ok
       THEN /\ ghost' = [ghost EXCEPT ![o][task[o].pos].closedOk = TRUE]
            /\ task' = [task EXCEPT ![o].pc = "cp_mark"]
       ELSE /\ ghost' = [ghost EXCEPT ![o][task[o].pos].closeFailed = TRUE]
            /\ task' = [task EXCEPT ![o] = TaskAfterClose(task[o])]
  /\ UNCHANGED <<strategies, nInst, inst, positions, stop, tickPending,
                 events, reader, lastCall, stopAll, bt, reg>>

TaskCloseMark(o) ==
  /\ task[o].pc = "cp_mark"
  /\ positions' = [positions EXCEPT ![o][task[o].pos] =
                     MarkClosed(@, task[o].price, task[o].reason)]
  /\ task' = [task EXCEPT ![o].pc = "cp_pnl"]
  /\ UNCHANGED <<strategies, nInst, inst, stop, tickPending, events, reader,
                 lastCall, ghost, stopAll, bt, reg>>

TaskClosePnL(o) ==
  /\ task[o].pc = "cp_pnl"
  /\ positions' = [positions EXCEPT ![o][task[o].pos].PnL =
                     RealizedPnL(positions[o][task[o].pos], task[o].price)]
  /\ task' = [task EXCEPT ![o] = TaskAfterClose(task[o])]
  /\ UNCHANGED <<strategies, nInst, inst, stop, tickPending, events, reader,
                 lastCall, ghost, stopAll, bt, reg>>

(***************************************************************************)
(* position.Manager.HandleSignal                                           *)
(***************************************************************************)
SideOf(sig) == IF sig = "Short" THEN "short" ELSE "long"

\* lines 65-72
Filtered(cfg, side) ==
  \/ cfg.TradeDirection = "long" /\ side = "short"
  \/ cfg.TradeDirection = "short" /\ side = "long"

\* a HandleSignal that re-enters on a signal of the open Position's side, as
\* the Backtester does
HandleSignalReenters(o, sig, price) ==
  LET side == SideOf(sig)
      p == inst[o].Position
      return == [IdleTask EXCEPT !.pc = "select"]
      th == [IdleTask EXCEPT !.side = side, !.price = price]
  IN IF sig \notin {"Long", "Short"} THEN return
     ELSE IF Filtered(inst[o].Config, side) THEN return
     ELSE IF p # NilPos /\ positions[o][p].IsOpen
          THEN [th EXCEPT !.pc = "cp_get", !.reason = "Trend Reversal",
                          !.ret = "hs"]
          ELSE [th EXCEPT !.pc = "open"]

\* lines 50-83: the task's record when HandleSignal(state, signal, price)
\* reaches its first blocking call or returns
HandleSignal(o, sig, price) ==
  LET side == SideOf(sig)
      p == inst[o].Position
      return == [IdleTask EXCEPT !.pc = "select"]
      th == [IdleTask EXCEPT !.side = side, !.price = price]
  IN IF sig \notin {"Long", "Short"} THEN return
     ELSE IF Filtered(inst[o].Config, side) THEN return
     ELSE IF p # NilPos /\ positions[o][p].IsOpen
          THEN IF positions[o][p].Side = side THEN return
               ELSE [th EXCEPT !.pc = "cp_get", !.reason = "Trend Reversal",
                               !.ret = "hs"]
          ELSE [th EXCEPT !.pc = "open"]

\* a HandleSignal that goes on to SetPosition whatever the adapter answered
OpenErrorIgnored(o, ok) ==
  /\ task[o].pc = "open"
  /\ positions' = [positions EXCEPT ![o] =
       Append(@, NewPosition(task[o].side, inst[o].Config.PositionSize))]
  /\ ghost' = [ghost EXCEPT ![o] = Append(@, NewGhost)]
  /\ task' = [task EXCEPT ![o].pc = "set"]
  /\ UNCHANGED <<strategies, nInst, inst, stop, tickPending, events, reader,
                 stopAll, bt, reg>>

\* lines 87-91: the adapter's OpenPosition answers, with a Position or with an
\* error
OpenPositionAnswers(o, ok) ==
  /\ task[o].pc = "open"
  /\ IF ok
     THEN /\ positions' = [positions EXCEPT ![o] =
               Append(@, NewPosition(task[o].side, inst[o].Config.PositionSize))]
          /\ ghost' = [ghost EXCEPT ![o] = Append(@, NewGhost)]
          /\ task' = [task EXCEPT ![o].pc = "set"]
     ELSE /\ task' = [task EXCEPT ![o] = [IdleTask EXCEPT !.pc = "select"]]
          /\ UNCHANGED <<positions, ghost>>
  /\ UNCHANGED <<strategies, nInst, inst, stop, tickPending, events, reader,
                 stopAll, bt, reg>>

HandleSignalOpen(o) ==
  /\ \E ok \in BOOLEAN : OpenPositionAnswers(o, ok)
  /\ UNCHANGED lastCall

\* lines 93-95: newPos is the Position the adapter returned last
HandleSignalSet(o) ==
  /\ task[o].pc = "set"
  /\ LET n == Len(positions[o]) IN
       /\ positions' = [positions EXCEPT ![o][n].EntryPrice = task[o].price]
       /\ inst' = [inst EXCEPT ![o].Position = n]
  /\ task' = [task EXCEPT ![o] = [IdleTask EXCEPT !.pc = "select"]]
  /\ UNCHANGED <<strategies, nInst, stop, tickPending, events, reader,
                 lastCall, ghost, stopAll, bt, reg>>

(***************************************************************************)
(* position.Manager.CheckTPSL                                              *)
(***************************************************************************)
\* lines 139-144, as the comparison  pnlPercent >= pct  without the division
PnLPercentAtLeast(pos, currentPrice, pct) ==
  IF pos.Side = "long"
  THEN (currentPrice - pos.EntryPrice) * 100 >= pct * pos.EntryPrice
  ELSE (pos.EntryPrice - currentPrice) * 100 >= pct * pos.EntryPrice

\* the comparison  pnlPercent <= -pct
PnLPercentAtMost(pos, currentPrice, pct) ==
  IF pos.Side = "long"
  THEN (currentPrice - pos.EntryPrice) * 100 <= (0 - pct) * pos.EntryPrice
  ELSE (pos.EntryPrice - currentPrice) * 100 <= (0 - pct) * pos.EntryPrice

\* lines 146-150 without the tests that a threshold is set
TPSLReasonZeroFires(cfg, pos, currentPrice) ==
  IF PnLPercentAtLeast(pos, currentPrice, cfg.TakeProfitPercent)
  THEN "Take Profit"
  ELSE IF PnLPercentAtMost(pos, currentPrice, cfg.StopLossPercent)
       THEN "Stop Loss"
       ELSE ""

\* lines 146-150: the reason to close with, "" for none
TPSLReason(cfg, pos, currentPrice) ==
  IF cfg.TakeProfitPercent > 0
     /\ PnLPercentAtLeast(pos, currentPrice, cfg.TakeProfitPercent)
  THEN "Take Profit"
  ELSE IF cfg.StopLossPercent > 0
          /\ PnLPercentAtMost(pos, currentPrice, cfg.StopLossPercent)
       THEN "Stop Loss"
       ELSE ""

\* lines 130-150: the task's record when CheckTPSL(state, currentPrice)
\* calls ClosePosition or returns
CheckTPSL(o, currentPrice) ==
  LET return == [IdleTask EXCEPT !.pc = "select"]
  IN IF NothingToClose(o) THEN return
     ELSE LET r == TPSLReason(inst[o].Config, positions[o][inst[o].Position],
                              currentPrice)
          IN IF r = "" THEN return
             ELSE [IdleTask EXCEPT !.pc = "cp_get", !.price = currentPrice,
                                   !.reason = r, !.ret = "tpsl"]

\* a processCandle that does not keep the timestamp of the candle it processed
ProcessCandleOnForgetful(o, w) ==
  /\ task[o].pc = "poll"
  /\ IF w.ts <= inst[o].LastCandleTime
     THEN /\ task' = [task EXCEPT ![o] = CheckTPSL(o, w.close)]
          /\ inst' = inst
     ELSE /\ inst' = [inst EXCEPT
                ![o].LastVisualization =
                    IF w.n = "short" THEN "nil" ELSE "viz"]
          /\ task' = [task EXCEPT ![o] =
               IF w.sig \in SignalTypes
               THEN HandleSignal(o, w.sig, w.close)
               ELSE [IdleTask EXCEPT !.pc = "select"]]
  /\ UNCHANGED <<strategies, nInst, positions, stop, tickPending, events,
                 reader, ghost, stopAll, bt, reg>>

\* a processCandle that takes a window as new unless its latest candle is
\* strictly older than the last processed one
ProcessCandleOnStrictlyOlder(o, w) ==
  /\ task[o].pc = "poll"
  /\ IF w.ts < inst[o].LastCandleTime
     THEN /\ task' = [task EXCEPT ![o] = CheckTPSL(o, w.close)]
          /\ inst' = inst
     ELSE /\ inst' = [inst EXCEPT
                ![o].LastCandleTime = w.ts,
                ![o].LastVisualization =
                    IF w.n = "short" THEN "nil" ELSE "viz"]
          /\ task' = [task EXCEPT ![o] =
               IF w.sig \in SignalTypes
               THEN HandleSignal(o, w.sig, w.close)
               ELSE [IdleTask EXCEPT !.pc = "select"]]
  /\ UNCHANGED <<strategies, nInst, positions, stop, tickPending, events,
                 reader, ghost, stopAll, bt, reg>>

(***************************************************************************)
(* Engine.processCandle on a fetched window (lines 205-255).  The fetch    *)
(* returns and the poll runs up to the first blocking call of the position *)
(* manager in one step: what lies between touches only the task's own      *)
(* LastCandleTime and LastVisualization.                                   *)
(***************************************************************************)
ProcessCandleOn(o, w) ==
  /\ task[o].pc = "poll"
  /\ IF w.ts <= inst[o].LastCandleTime
     THEN \* no new candle: only the TP/SL check
          /\ task' = [task EXCEPT ![o] = CheckTPSL(o, w.close)]
          /\ inst' = inst
     ELSE /\ inst' = [inst EXCEPT
                ![o].LastCandleTime = w.ts,
                ![o].LastVisualization =
                    IF w.n = "short" THEN "nil" ELSE "viz"]
          /\ task' = [task EXCEPT ![o] =
               IF w.sig \in SignalTypes
               THEN HandleSignal(o, w.sig, w.close)
               ELSE [IdleTask EXCEPT !.pc = "select"]]
  /\ UNCHANGED <<strategies, nInst, positions, stop, tickPending, events,
                 reader, ghost, stopAll, bt, reg>>

ProcessCandle(o) ==
  /\ \E w \in Windows : ProcessCandleOn(o, w)
  /\ UNCHANGED lastCall

(***************************************************************************)
(* Engine.StopStrategy after the unlock (lines 106-112), on the private    *)
(* reference state captured under the lock.                                *)
(***************************************************************************)
\* line 107
StopCheck(o) ==
  /\ stop[o].pc = "check"
  /\ stop' = [stop EXCEPT ![o] =
       IF NothingToClose(o) THEN StopAfterClose(stop[o])
       ELSE [stop[o] EXCEPT !.pc = "price"]]
  /\ UNCHANGED <<strategies, nInst, inst, positions, task, tickPending,
                 events, reader, lastCall, ghost, stopAll, bt, reg>>

\* lines 108-109: currentPrice := state.Position.EntryPrice, and the call
StopPrice(o) ==
  /\ stop[o].pc = "price"
  /\ stop' = [stop EXCEPT ![o].pc = "cp_get",
                          ![o].price = positions[o][inst[o].Position].EntryPrice,
                          ![o].reason = "Strategy Stopped"]
  /\ UNCHANGED <<strategies, nInst, inst, positions, task, tickPending,
                 events, reader, lastCall, ghost, stopAll, bt, reg>>

StopCloseGet(o) ==
  /\ stop[o].pc = "cp_get"
  /\ stop' = [stop EXCEPT ![o] =
       IF NothingToClose(o) THEN StopAfterClose(stop[o])
       ELSE [stop[o] EXCEPT !.pc = "cp_exch", !.pos = inst[o].Position]]
  /\ UNCHANGED <<strategies, nInst, inst, positions, task, tickPending,
                 events, reader, lastCall, ghost, stopAll, bt, reg>>

StopCloseExchange(o) ==
  /\ stop[o].pc = "cp_exch"
  /\ \E ok \in BOOLEAN :
       IF ok
       THEN /\ ghost' = [ghost EXCEPT ![o][stop[o].pos].closedOk = TRUE]
            /\ stop' = [stop EXCEPT ![o].pc = "cp_mark"]
       ELSE /\ ghost' = [ghost EXCEPT ![o][stop[o].pos].closeFailed = TRUE]
            /\ stop' = [stop EXCEPT ![o] = StopAfterClose(stop[o])]
  /\ UNCHANGED <<strategies, nInst, inst, positions, task, tickPending,
                 events, reader, lastCall, stopAll, bt, reg>>

StopCloseMark(o) ==
  /\ stop[o].pc = "cp_mark"
  /\ positions' = [positions EXCEPT ![o][stop[o].pos] =
                     MarkClosed(@, stop[o].price, stop[o].reason)]
  /\ stop' = [stop EXCEPT ![o].pc = "cp_pnl"]
  /\ UNCHANGED <<strategies, nInst, inst, task, tickPending, events, reader,
                 lastCall, ghost, stopAll, bt, reg>>

StopClosePnL(o) ==
  /\ stop[o].pc = "cp_pnl"
  /\ positions' = [positions EXCEPT ![o][stop[o].pos].PnL =
                     RealizedPnL(positions[o][stop[o].pos], stop[o].price)]
  /\ stop' = [stop EXCEPT ![o] = StopAfterClose(stop[o])]
  /\ UNCHANGED <<strategies, nInst, inst, task, tickPending, events, reader,
                 lastCall, ghost, stopAll, bt, reg>>

(***************************************************************************)
(* Engine.GetRunningStrategies.  The read lock is held from ReadLock to    *)
(* ReadReturn.  The entries are built one instance at a time, in the order *)
(* the map iteration yields them (any order; an entry that is not in the   *)
(* map any more is not yielded), and each load of state.Position is a step *)
(* of its own.                                                             *)
(***************************************************************************)
\* lines 117-120
ReadLock ==
  /\ Event
  /\ reader.pc = "idle"
  /\ reader' = [IdleReader EXCEPT !.pc = "next"]
  /\ UNCHANGED <<strategies, nInst, inst, positions, task, stop, tickPending,
                 lastCall, ghost, stopAll, bt, reg>>

\* lines 122-131
InfoOf(o) ==
  [NoInfo EXCEPT !.ID = inst[o].ID, !.StrategyID = inst[o].Strategy.ID,
                 !.Symbol = inst[o].Symbol, !.Interval = inst[o].Interval,
                 !.IsRunning = inst[o].IsRunning, !.Config = inst[o].Config]

\* lines 121-134 and 140 for the next instance of the iteration
ReadEntry(id) ==
  /\ reader.pc = "next"
  /\ id \in Table \ reader.seen
  /\ LET o == strategies[id] IN
       reader' =
         IF inst[o].Position = NilPos
         THEN [reader EXCEPT !.seen = @ \cup {id},
                             !.result = Append(@, InfoOf(o))]
         ELSE [reader EXCEPT !.seen = @ \cup {id}, !.pc = "side", !.obj = o,
                             !.cur = [InfoOf(o) EXCEPT !.HasPosition = TRUE]]
  /\ UNCHANGED <<strategies, nInst, inst, positions, task, stop, tickPending,
                 events, lastCall, ghost, stopAll, bt, reg>>

\* line 135
ReadSide ==
  /\ reader.pc = "side"
  /\ LET o == reader.obj IN
       reader' = [reader EXCEPT !.pc = "rest",
                    !.cur.PositionSide = positions[o][inst[o].Position].Side]
  /\ UNCHANGED <<strategies, nInst, inst, positions, task, stop, tickPending,
                 events, lastCall, ghost, stopAll, bt, reg>>

\* lines 136-137 and 140.  Every Position of an instance has the size of its
\* configuration, so the two loads are taken as one step.
ReadRest ==
  /\ reader.pc = "rest"
  /\ LET o == reader.obj
         pos == positions[o][inst[o].Position]
     IN reader' = [reader EXCEPT
          !.pc = "next", !.obj = NoObj, !.cur = NoInfo,
          !.result = Append(@, [reader.cur EXCEPT
                                  !.PositionSize = pos.Size,
                                  !.EntryPrice = pos.EntryPrice])]
  /\ UNCHANGED <<strategies, nInst, inst, positions, task, stop, tickPending,
                 events, lastCall, ghost, stopAll, bt, reg>>

\* the snapshot is complete: the loop of line 121 has yielded every entry
SnapshotDone == reader.pc = "next" /\ Table \ reader.seen = {}

\* lines 142 and 118: return result, RUnlock
ReadReturn ==
  /\ SnapshotDone
  /\ reader' = IdleReader
  /\ UNCHANGED <<strategies, nInst, inst, positions, task, stop, tickPending,
                 events, lastCall, ghost, stopAll, bt, reg>>

(***************************************************************************)
(* Engine.StopAllStrategies: the ids are collected under the read lock,    *)
(* then StopStrategy runs for each of them in turn, its close included,    *)
(* and its error is dropped.                                               *)
(***************************************************************************)
\* lines 147-152: the critical section makes no blocking call
StopAllCollect ==
  /\ Event
  /\ stopAll.pc = "idle"
  /\ stopAll' = [IdleStopAll EXCEPT !.pc = "loop", !.ids = Table,
                                    !.objs = {strategies[id] : id \in Table},
                                    !.n0 = nInst]
  /\ UNCHANGED <<strategies, nInst, inst, positions, task, stop, tickPending,
                 reader, lastCall, ghost, bt, reg>>

\* lines 154-155: e.StopStrategy(id) up to its unlock
StopAllNext(id) ==
  /\ stopAll.pc = "loop"
  /\ id \in stopAll.ids
  /\ CanLock
  /\ IF ~Exists(id)
     THEN /\ StopMiss(id)
          /\ stopAll' = [stopAll EXCEPT !.ids = @ \ {id},
                                        !.missed = @ \cup {id}]
     ELSE /\ StopHit(id)
          /\ stopAll' = [stopAll EXCEPT !.pc = "wait", !.ids = @ \ {id},
                                        !.cur = strategies[id]]
  /\ UNCHANGED events

\* line 155: e.StopStrategy(id) returns once its close is through
StopAllJoin ==
  /\ stopAll.pc = "wait"
  /\ stop[stopAll.cur].pc = "done"
  /\ stopAll' = [stopAll EXCEPT !.pc = "loop", !.cur = NoObj]
  /\ UNCHANGED <<strategies, nInst, inst, positions, task, stop, tickPending,
                 events, reader, lastCall, ghost, bt, reg>>

\* a StopAllStrategies that may return before its loop is through
StopAllReturnEarly ==
  /\ stopAll.pc = "loop"
  /\ stopAll' = [stopAll EXCEPT !.pc = "returned", !.ids = {}]
  /\ UNCHANGED <<strategies, nInst, inst, positions, task, stop, tickPending,
                 events, reader, lastCall, ghost, bt, reg>>

\* line 157
StopAllReturn ==
  /\ stopAll.pc = "loop"
  /\ stopAll.ids = {}
  /\ stopAll' = [stopAll EXCEPT !.pc = "returned"]
  /\ UNCHANGED <<strategies, nInst, inst, positions, task, stop, tickPending,
                 events, reader, lastCall, ghost, bt, reg>>

(***************************************************************************)
(* The system.                                                             *)
(***************************************************************************)
\* The callers start one instance; every further StartStrategy is one that
\* fails.  Restarts and several instances are the subject of NextTable.
Next ==
  \/ \E id \in Ids, sid \in StrategyIDs, sym \in Symbols, itv \in Intervals,
        p \in ParamMaps, cfg \in Configs :
       /\ StartStrategy(id, sid, sym, itv, p, cfg)
       /\ nInst' = nInst \/ nInst = 0
  \/ \E id \in Ids : StopStrategy(id)
  \/ \E o \in Objs :
       \/ RunInitFail(o)
       \/ RunInit(o)
       \/ RunCancelled(o)
       \/ Tick(o)
       \/ RunTick(o)
       \/ ProcessCandleFail(o)
       \/ ProcessCandle(o)
       \/ HandleSignalOpen(o)
       \/ HandleSignalSet(o)
       \/ TaskCloseGet(o)
       \/ TaskCloseExchange(o)
       \/ TaskCloseMark(o)
       \/ TaskClosePnL(o)
       \/ StopCheck(o)
       \/ StopPrice(o)
       \/ StopCloseGet(o)
       \/ StopCloseExchange(o)
       \/ StopCloseMark(o)
       \/ StopClosePnL(o)
  \/ ReadLock
  \/ \E id \in Ids : ReadEntry(id)
  \/ ReadSide
  \/ ReadRest
  \/ ReadReturn

\* One strategy is started, polled, read and stopped.
Spec == Init /\ [][Next]_vars

\* The steps a thread takes on its own once it can: the select of run, the
\* memory accesses of the position manager and of StopStrategy.  The steps
\* that are the return of a call to the candle source or to the exchange
\* (RunInit, RunInitFail, ProcessCandle, ProcessCandleFail, HandleSignalOpen,
\* TaskCloseExchange, StopCloseExchange) are not among them: nothing in the
\* code makes such a call return.
Scheduling ==
  \A o \in Objs :
    /\ WF_vars(RunCancelled(o))
    /\ WF_vars(RunTick(o))
    /\ WF_vars(TaskCloseGet(o))
    /\ WF_vars(TaskCloseMark(o))
    /\ WF_vars(TaskClosePnL(o))
    /\ WF_vars(HandleSignalSet(o))
    /\ WF_vars(StopCheck(o))
    /\ WF_vars(StopPrice(o))
    /\ WF_vars(StopCloseGet(o))
    /\ WF_vars(StopCloseMark(o))
    /\ WF_vars(StopClosePnL(o))

\* Spec with the Go scheduler's fairness.
SpecFair == Spec /\ Scheduling

NextTable ==
  \/ \E id \in Ids, sid \in StrategyIDs, sym \in Symbols, itv \in Intervals,
        p \in ParamMaps, cfg \in Configs :
       StartStrategy(id, sid, sym, itv, p, cfg)
  \/ \E id \in Ids : StopStrategy(id)
  \/ \E o \in Objs :
       \/ RunInitFail(o)
       \/ RunInit(o)
       \/ RunCancelled(o)
  \/ ReadLock
  \/ \E id \in Ids : ReadEntry(id)
  \/ ReadReturn

\* Several strategies are started, read and stopped.  No timer fires, so no
\* Position is ever opened and StopStrategy has nothing to do after its unlock.
SpecTable == Init /\ [][NextTable]_vars

\* the request of a caller who names a registered strategy and a factor of 2.5
ValidParams == [kind |-> "num", val |-> 25]

\* the configuration that lets every close path run: both directions, take
\* profit and stop loss set
BothWays == CHOOSE cfg \in Configs : cfg.TradeDirection = "both"

NextStopAll ==
  \/ \E id \in Ids, sym \in Symbols, itv \in Intervals :
       StartStrategy(id, "max-trend", sym, itv, ValidParams, BothWays)
  \/ \E id \in Ids : StopStrategy(id)
  \/ StopAllCollect
  \/ \E id \in Ids : StopAllNext(id)
  \/ StopAllJoin
  \/ StopAllReturn
  \/ \E o \in Objs :
       \/ RunInitFail(o)
       \/ RunInit(o)
       \/ RunCancelled(o)
       \/ Tick(o)
       \/ RunTick(o)
       \/ ProcessCandleFail(o)
       \/ ProcessCandle(o)
       \/ HandleSignalOpen(o)
       \/ HandleSignalSet(o)
       \/ TaskCloseGet(o)
       \/ TaskCloseExchange(o)
       \/ TaskCloseMark(o)
       \/ TaskClosePnL(o)
       \/ StopCheck(o)
       \/ StopPrice(o)
       \/ StopCloseGet(o)
       \/ StopCloseExchange(o)
       \/ StopCloseMark(o)
       \/ StopClosePnL(o)

\* Strategies are started with valid requests, polled and stopped, one by one
\* and all at once at shutdown; nobody reads the table.
SpecStopAll == Init /\ [][NextStopAll]_vars

(***************************************************************************)
(* Backtester (internal/engine/backtester.go).  float64 values are exact   *)
(* rationals [n, d] in lowest terms with d > 0; the rounding of float64    *)
(* is not represented.                                                     *)
(***************************************************************************)
RECURSIVE GCD(_, _)
GCD(a, b) == IF b = 0 THEN a ELSE GCD(b, a % b)

Abs(x) == IF x < 0 THEN -x ELSE x

Rat(n, d) ==
  LET g == GCD(Abs(n), Abs(d))
      s == IF d < 0 THEN -1 ELSE 1
  IN  IF n = 0 THEN [n |-> 0, d |-> 1]
      ELSE [n |-> s * (n \div g), d |-> s * (d \div g)]

Zero == Rat(0, 1)
RatAdd(x, y) == Rat(x.n * y.d + y.n * x.d, x.d * y.d)
RatSub(x, y) == Rat(x.n * y.d - y.n * x.d, x.d * y.d)
RatMul(x, y) == Rat(x.n * y.n, x.d * y.d)
RatDiv(x, y) == Rat(x.n * y.d, x.d * y.n)
RatNeg(x) == [n |-> -x.n, d |-> x.d]
RatLess(x, y) == x.n * y.d < y.n * x.d

\* Go's integer division truncates toward zero
TruncDiv(a, b) ==
  IF a >= 0 THEN a \div b ELSE -((-a) \div b)

\* strconv.ParseFloat with the error dropped: 0 for a string that is no number
parseFloat(s) ==
  IF s = "100" THEN Rat(100, 1)
  ELSE IF s = "110" THEN Rat(110, 1)
  ELSE Zero

\* the candle at Go index k - 1: closes alternate, timestamps count up
Candle(k) ==
  [Close |-> IF k % 2 = 1 THEN "110" ELSE "100", Timestamp |-> k]

CandleSeqs == {[k \in 1..n |-> Candle(k)] : n \in 0..MaxCandles}

\* the k-th signal of a strategy is raised on the candle at Go index k - 1
SignalSeqs ==
  UNION {[1..n -> {[Type |-> t, Index |-> 0, Price |-> Rat(p, 1), Time |-> 0]
                     : t \in SignalTypes, p \in Prices}]
           : n \in 0..MaxSignals}

Stamped(sigs) ==
  [k \in 1..Len(sigs) |-> [sigs[k] EXCEPT !.Index = k - 1, !.Time = k]]

BacktestConfigs ==
  {[PositionSize |-> 2, TradeDirection |-> d,
    TakeProfitPercent |-> 0, StopLossPercent |-> 0]
     : d \in {"long", "short", "both"}}

\* lines 75-76: the locals of simulatePositions when its loop starts
NoPosition == [IsOpen |-> FALSE, Side |-> ""]

\* Run(candles, signals, _, config, _, _) entered for the run-th time
EnterRun(candles, signals, config, run, first) ==
  [pc |-> "loop", candles |-> candles, signals |-> signals,
   config |-> config, i |-> 0, currentPosition |-> NoPosition,
   positions |-> <<>>, run |-> run, first |-> first, result |-> <<>>]

\* a Position entered one candle after its signal
OpenedAtNextCandle(signal, side, config) ==
  [EntryIndex |-> signal.Index + 1, EntryPrice |-> signal.Price,
   EntryTime |-> signal.Time, Side |-> side,
   Size |-> Rat(config.PositionSize, 1), IsOpen |-> TRUE,
   ExitIndex |-> 0, ExitPrice |-> Zero, ExitTime |-> 0, ExitReason |-> "",
   PnL |-> Zero, PnLPercentage |-> Zero, MaxDrawdown |-> Zero]

\* lines 101-108
OpenedAt(signal, side, config) ==
  [EntryIndex |-> signal.Index, EntryPrice |-> signal.Price,
   EntryTime |-> signal.Time, Side |-> side,
   Size |-> Rat(config.PositionSize, 1), IsOpen |-> TRUE,
   ExitIndex |-> 0, ExitPrice |-> Zero, ExitTime |-> 0, ExitReason |-> "",
   PnL |-> Zero, PnLPercentage |-> Zero, MaxDrawdown |-> Zero]

\* candles[exitIndex] panics
OutOfRange(candles, exitIndex) ==
  exitIndex < 0 \/ exitIndex >= Len(candles)

\* lines 136-140, with the side test dropped
PriceDiffOneSided(position, exitPrice) ==
  RatSub(exitPrice, position.EntryPrice)

\* lines 136-140
PriceDiff(position, exitPrice) ==
  IF position.Side = "long"
  THEN RatSub(exitPrice, position.EntryPrice)
  ELSE RatSub(position.EntryPrice, exitPrice)

\* lines 122-144, for an exitIndex within the candles
closePosition(candles, position, exitIndex, exitPrice, reason) ==
  LET priceDiff == PriceDiff(position, exitPrice)
      pct == RatMul(RatDiv(priceDiff, position.EntryPrice), Rat(100, 1))
  IN  [position EXCEPT
         !.ExitIndex = exitIndex,
         !.ExitPrice = exitPrice,
         !.ExitTime = candles[exitIndex + 1].Timestamp,
         !.IsOpen = FALSE,
         !.ExitReason = reason,
         !.PnLPercentage = pct,
         !.PnL = RatMul(RatMul(position.Size, position.EntryPrice),
                        RatDiv(pct, Rat(100, 1)))]

BtFrame ==
  UNCHANGED <<strategies, nInst, inst, positions, task, stop, tickPending,
              events, reader, lastCall, ghost, stopAll, reg>>

BtSignal == bt.signals[bt.i + 1]
BtSide == IF BtSignal.Type = "Long" THEN "long" ELSE "short"
BtActionable == BtSignal.Type \in {"Long", "Short"}
BtAtSignal == bt.pc = "loop" /\ bt.i < Len(bt.signals)

\* lines 78-81: a signal that is neither Long nor Short
BacktestIgnore ==
  /\ BtAtSignal
  /\ ~BtActionable
  /\ bt' = [bt EXCEPT !.i = @ + 1]
  /\ BtFrame

\* a direction filter under which an excluded signal still ends the open
\* Position
FilteredSignalCloses ==
  /\ BtAtSignal
  /\ BtActionable
  /\ Filtered(bt.config, BtSide)
  /\ bt' = [bt EXCEPT
       !.i = @ + 1,
       !.positions =
          IF bt.currentPosition.IsOpen
          THEN Append(@, [bt.currentPosition EXCEPT
                            !.IsOpen = FALSE, !.ExitReason = "Trend Reversal"])
          ELSE @,
       !.currentPosition = NoPosition]
  /\ BtFrame

\* lines 83-92: a signal of a side that config.TradeDirection excludes
BacktestFiltered ==
  /\ BtAtSignal
  /\ BtActionable
  /\ Filtered(bt.config, BtSide)
  /\ bt' = [bt EXCEPT !.i = @ + 1]
  /\ BtFrame

\* a close on a signal made as the close at the end of the period is made
ClosedAtLastCandle ==
  closePosition(bt.candles, bt.currentPosition, Len(bt.candles) - 1,
                parseFloat(bt.candles[Len(bt.candles)].Close),
                "End of Period")

\* lines 94-99, for a signal whose index is within the candles
ClosedBySignal ==
  closePosition(bt.candles, bt.currentPosition, BtSignal.Index,
                BtSignal.Price, "Trend Reversal")

\* lines 94-108 with the open Position left in place on a signal
EnterKeepingOpen ==
  /\ BtAtSignal
  /\ BtActionable
  /\ ~Filtered(bt.config, BtSide)
  /\ bt' = [bt EXCEPT
       !.i = @ + 1,
       !.positions = IF bt.currentPosition.IsOpen
                     THEN Append(@, bt.currentPosition) ELSE @,
       !.currentPosition = OpenedAt(BtSignal, BtSide, bt.config)]
  /\ BtFrame

\* lines 94-108: an actionable signal that passes the filter closes the open
\* Position, if any, appends it to the ledger and opens a new one
BacktestEnter ==
  /\ BtAtSignal
  /\ BtActionable
  /\ ~Filtered(bt.config, BtSide)
  /\ IF bt.currentPosition.IsOpen /\ OutOfRange(bt.candles, BtSignal.Index)
     THEN bt' = [bt EXCEPT !.pc = "panic"]
     ELSE bt' = [bt EXCEPT
            !.i = @ + 1,
            !.positions = IF bt.currentPosition.IsOpen
                          THEN Append(@, ClosedBySignal) ELSE @,
            !.currentPosition = OpenedAt(BtSignal, BtSide, bt.config)]
  /\ BtFrame

\* lines 111-119 without the close of the Position that is still open
EndWithoutClose ==
  /\ bt.pc = "loop"
  /\ bt.i = Len(bt.signals)
  /\ bt' = [bt EXCEPT !.pc = "metrics"]
  /\ BtFrame

\* lines 111-119: the Position still open after the last signal is closed on
\* the last candle
BacktestEnd ==
  /\ bt.pc = "loop"
  /\ bt.i = Len(bt.signals)
  /\ IF ~bt.currentPosition.IsOpen
     THEN bt' = [bt EXCEPT !.pc = "metrics"]
     ELSE IF bt.candles = <<>>
     THEN bt' = [bt EXCEPT !.pc = "panic"]
     ELSE LET last == Len(bt.candles)
              closed == closePosition(bt.candles, bt.currentPosition, last - 1,
                                      parseFloat(bt.candles[last].Close),
                                      "End of Period")
          IN  bt' = [bt EXCEPT !.pc = "metrics",
                               !.currentPosition = closed,
                               !.positions = Append(@, closed)]
  /\ BtFrame

\* lines 165, 171-174: the zero backtestMetrics and zero loop variables
ZeroMetrics ==
  [totalPnL |-> Zero, totalPnLPercent |-> Zero, winRate |-> Zero,
   totalTrades |-> 0, winningTrades |-> 0, losingTrades |-> 0,
   averageWin |-> Zero, averageLoss |-> Zero, profitFactor |-> Zero,
   maxDrawdown |-> Zero, maxDrawdownPercent |-> Zero, sharpeRatio |-> Zero,
   longestWinStreak |-> 0, longestLossStreak |-> 0, averageHoldTime |-> 0]

ZeroTally ==
  [result |-> ZeroMetrics, totalWin |-> Zero, totalLoss |-> Zero,
   winStreak |-> 0, lossStreak |-> 0, currentWinStreak |-> 0,
   currentLossStreak |-> 0, totalHoldTime |-> 0,
   totalCapitalInvested |-> Zero]

Max(a, b) == IF a > b THEN a ELSE b

\* an iteration that takes a PnL of 0 for a win
TallyOneZeroWins(t, pos) ==
  IF pos.IsOpen THEN t
  ELSE
    LET r == t.result
        win == ~RatLess(pos.PnL, Zero)
        cw == IF win THEN t.currentWinStreak + 1 ELSE 0
        cl == IF win THEN 0 ELSE t.currentLossStreak + 1
    IN  [result |->
           [r EXCEPT
              !.totalTrades = @ + 1,
              !.totalPnL = RatAdd(@, pos.PnL),
              !.winningTrades = IF win THEN @ + 1 ELSE @,
              !.losingTrades = IF win THEN @ ELSE @ + 1,
              !.maxDrawdown = IF RatLess(pos.MaxDrawdown, @)
                              THEN pos.MaxDrawdown ELSE @],
         totalWin |-> IF win THEN RatAdd(t.totalWin, pos.PnL) ELSE t.totalWin,
         totalLoss |-> IF win THEN t.totalLoss
                       ELSE RatAdd(t.totalLoss, RatNeg(pos.PnL)),
         winStreak |-> Max(t.winStreak, cw),
         lossStreak |-> Max(t.lossStreak, cl),
         currentWinStreak |-> cw,
         currentLossStreak |-> cl,
         totalHoldTime |-> t.totalHoldTime + (pos.ExitTime - pos.EntryTime),
         totalCapitalInvested |->
           RatAdd(t.totalCapitalInvested, RatMul(pos.Size, pos.EntryPrice))]

\* lines 176-212: one iteration of the loop over the ledger
TallyOne(t, pos) ==
  IF pos.IsOpen THEN t
  ELSE
    LET r == t.result
        win == RatLess(Zero, pos.PnL)
        cw == IF win THEN t.currentWinStreak + 1 ELSE 0
        cl == IF win THEN 0 ELSE t.currentLossStreak + 1
    IN  [result |->
           [r EXCEPT
              !.totalTrades = @ + 1,
              !.totalPnL = RatAdd(@, pos.PnL),
              !.winningTrades = IF win THEN @ + 1 ELSE @,
              !.losingTrades = IF win THEN @ ELSE @ + 1,
              !.maxDrawdown = IF RatLess(pos.MaxDrawdown, @)
                              THEN pos.MaxDrawdown ELSE @],
         totalWin |-> IF win THEN RatAdd(t.totalWin, pos.PnL) ELSE t.totalWin,
         totalLoss |-> IF win THEN t.totalLoss
                       ELSE RatAdd(t.totalLoss, RatNeg(pos.PnL)),
         winStreak |-> Max(t.winStreak, cw),
         lossStreak |-> Max(t.lossStreak, cl),
         currentWinStreak |-> cw,
         currentLossStreak |-> cl,
         totalHoldTime |-> t.totalHoldTime + (pos.ExitTime - pos.EntryTime),
         totalCapitalInvested |->
           RatAdd(t.totalCapitalInvested, RatMul(pos.Size, pos.EntryPrice))]

RECURSIVE Tally(_, _)
Tally(t, ledger) ==
  IF ledger = <<>> THEN t ELSE Tally(TallyOne(t, Head(ledger)), Tail(ledger))

\* lines 164-237
calculateMetrics(ledger) ==
  IF ledger = <<>> THEN ZeroMetrics
  ELSE
    LET t == Tally(ZeroTally, ledger)
        r == t.result
        n == r.totalTrades
        avgCapitalInvested ==
          IF n > 0 THEN RatDiv(t.totalCapitalInvested, Rat(n, 1)) ELSE Zero
    IN  [r EXCEPT
           !.winRate = IF n > 0 THEN Rat(r.winningTrades * 100, n) ELSE @,
           !.averageHoldTime =
              IF n > 0 THEN TruncDiv(t.totalHoldTime, n) ELSE @,
           !.totalPnLPercent =
              IF n > 0 /\ RatLess(Zero, avgCapitalInvested)
              THEN RatMul(RatDiv(r.totalPnL, avgCapitalInvested), Rat(100, 1))
              ELSE @,
           !.averageWin =
              IF r.winningTrades > 0
              THEN RatDiv(t.totalWin, Rat(r.winningTrades, 1)) ELSE @,
           !.averageLoss =
              IF r.losingTrades > 0
              THEN RatDiv(t.totalLoss, Rat(r.losingTrades, 1)) ELSE @,
           !.profitFactor =
              IF RatLess(Zero, t.totalLoss)
              THEN RatDiv(t.totalWin, t.totalLoss) ELSE @,
           !.longestWinStreak = t.winStreak,
           !.longestLossStreak = t.lossStreak]

\* lines 31-66: the BacktestResult
BacktestResult(ledger, signals) ==
  [Positions |-> ledger, Signals |-> signals,
   Metrics |-> calculateMetrics(ledger)]

\* lines 32-66: Run computes the metrics of the ledger and returns
BacktestReturn ==
  /\ bt.pc = "metrics"
  /\ bt' = [bt EXCEPT !.pc = "done",
                      !.result = BacktestResult(bt.positions, bt.signals)]
  /\ BtFrame

\* a Run that starts from the ledger the previous call left
BacktestAgainOnOldLedger ==
  /\ bt.pc = "done"
  /\ bt.run = 1
  /\ bt' = [EnterRun(bt.candles, bt.signals, bt.config, 2, bt.result)
              EXCEPT !.positions = bt.positions]
  /\ BtFrame

\* lines 23-31, 75-76: Run is called again with the same arguments
BacktestAgain ==
  /\ bt.pc = "done"
  /\ bt.run = 1
  /\ bt' = EnterRun(bt.candles, bt.signals, bt.config, 2, bt.result)
  /\ BtFrame

\* the engine is idle; Run is entered with any candles, signals and config
InitBacktest ==
  /\ strategies = [i \in Ids |-> NoObj]
  /\ nInst = 0
  /\ inst = [o \in Objs |-> FreeInst]
  /\ positions = [o \in Objs |-> <<>>]
  /\ task = [o \in Objs |-> IdleTask]
  /\ stop = [o \in Objs |-> IdleStop]
  /\ tickPending = [o \in Objs |-> FALSE]
  /\ events = 0
  /\ reader = IdleReader
  /\ lastCall = NoCall
  /\ ghost = [o \in Objs |-> <<>>]
  /\ stopAll = IdleStopAll
  /\ reg = StartRegistry
  /\ \E c \in CandleSeqs, s \in SignalSeqs, cfg \in BacktestConfigs :
       bt = EnterRun(c, Stamped(s), cfg, 1, <<>>)

NextBacktest ==
  \/ BacktestIgnore
  \/ BacktestFiltered
  \/ BacktestEnter
  \/ BacktestEnd
  \/ BacktestReturn
  \/ BacktestAgain

\* One caller runs the same backtest twice.
SpecBacktest == InitBacktest /\ [][NextBacktest]_vars

(***************************************************************************)
(* calculateMetrics on scripted ledgers.                                   *)
(***************************************************************************)
\* realized PnLs of the positions of a scripted ledger
ScriptedPnLs == {100, -50, 30, 0}

\* a long of size 1 entered at 100 on the first candle and closed on the
\* second with the realized PnL pnl
Scripted(pnl) ==
  closePosition(<<Candle(1), Candle(2)>>,
                OpenedAt([Type |-> "Long", Index |-> 0, Price |-> Rat(100, 1),
                          Time |-> 1],
                         "long", [PositionSize |-> 1]),
                1, Rat(100 + pnl, 1), "Trend Reversal")

ScriptedLedgers ==
  UNION {[1..n -> {Scripted(pnl) : pnl \in ScriptedPnLs}] : n \in 0..MaxLedger}

\* the engine is idle; Run has a ledger of closed positions in hand
InitMetrics ==
  /\ strategies = [i \in Ids |-> NoObj]
  /\ nInst = 0
  /\ inst = [o \in Objs |-> FreeInst]
  /\ positions = [o \in Objs |-> <<>>]
  /\ task = [o \in Objs |-> IdleTask]
  /\ stop = [o \in Objs |-> IdleStop]
  /\ tickPending = [o \in Objs |-> FALSE]
  /\ events = 0
  /\ reader = IdleReader
  /\ lastCall = NoCall
  /\ ghost = [o \in Objs |-> <<>>]
  /\ stopAll = IdleStopAll
  /\ reg = StartRegistry
  /\ \E ledger \in ScriptedLedgers, cfg \in BacktestConfigs :
       bt = [EnterRun(<<Candle(1), Candle(2)>>, <<>>, cfg, 2, <<>>)
               EXCEPT !.pc = "metrics", !.positions = ledger]

NextMetrics == BacktestReturn

\* Run computes the metrics of a scripted ledger.
SpecMetrics == InitMetrics /\ [][NextMetrics]_vars

(***************************************************************************)
(* The position manager under one task: an instance is started with any    *)
(* ExecutionConfig and polled; nobody stops it or reads the table.         *)
(* lastCall holds the last line HandleSignal and CheckTPSL were called     *)
(* with, or the adapter's answer to OpenPosition.                          *)
(***************************************************************************)
\* candle closes in tenths: 94, 100, 102 and 105.5
ManagerPrices == {940, 1000, 1020, 1055}

ManagerConfigs ==
  [PositionSize : {2}, TradeDirection : {"long", "short", "both"},
   TakeProfitPercent : {0, 5}, StopLossPercent : {0, 5}]

\* fetched windows of at least the warm-up length
ManagerWindows ==
  [ts : Timestamps, close : ManagerPrices, n : {"full"},
   sig : {"none"} \cup SignalTypes]

\* the poll of a window: processCandle calls CheckTPSL or HandleSignal
PollWindow(o) ==
  \E w \in ManagerWindows :
    /\ ProcessCandleOn(o, w)
    /\ lastCall' = [op |-> IF w.ts <= inst[o].LastCandleTime THEN "CheckTPSL"
                           ELSE IF w.sig \in SignalTypes THEN "HandleSignal"
                           ELSE "none",
                    id |-> inst[o].ID, err |-> "", sig |-> w.sig,
                    price |-> w.close]

\* the adapter's answer to the OpenPosition call of HandleSignal
OpenAnswered(o) ==
  \E ok \in BOOLEAN :
    /\ OpenPositionAnswers(o, ok)
    /\ lastCall' = [lastCall EXCEPT !.op = "OpenPosition",
                                    !.err = IF ok THEN "ok" ELSE "failed"]

NextManager ==
  \/ \E sym \in Symbols, itv \in Intervals, cfg \in ManagerConfigs :
       /\ nInst = 0
       /\ StartStrategy("a", "max-trend", sym, itv, ValidParams, cfg)
  \/ \E o \in Objs :
       \/ RunInit(o)
       \/ Tick(o)
       \/ RunTick(o)
       \/ PollWindow(o)
       \/ OpenAnswered(o)
       \/ HandleSignalSet(o)
       \/ TaskCloseGet(o)
       \/ TaskCloseExchange(o)
       \/ TaskCloseMark(o)
       \/ TaskClosePnL(o)

\* One strategy is started and polled.
SpecManager == Init /\ [][NextManager]_vars

(***************************************************************************)
(* strategy.Registry: Register, Get and List under the RWMutex r.mu.       *)
(* While Register assigns r.strategies[id] the entry is "partial": Go maps *)
(* are not safe for a read during a write.                                 *)
(***************************************************************************)
\* the strategy a factory produces; reading an entry in mid-assignment
\* produces anything
Product(factory) == [factory |-> factory]

\* Strategy.GetMetadata
GetMetadata(strategy) ==
  [ID |-> IF strategy.factory = "maxtrend.New" THEN "max-trend"
          ELSE IF strategy.factory = "other.New" THEN "other"
          ELSE "garbage"]

Registered == {id \in StrategyIDs : reg.strategies[id] # "none"}

\* a registry whose lock calls return at once
Unguarded(write) == TRUE

\* r.mu.Lock() (write) or r.mu.RLock() can return
LockFree(write) ==
  /\ reg.writer = ""
  /\ write => reg.readers = {}

RegFrame ==
  UNCHANGED <<strategies, nInst, inst, positions, task, stop, tickPending,
              events, reader, lastCall, ghost, stopAll, bt>>

\* a goroutine calls Register, Get or List
RegistryCall(c, op, id, factory) ==
  /\ reg.th[c].pc = "idle"
  /\ reg.calls < MaxRegistryCalls
  /\ reg' = [reg EXCEPT
       !.calls = @ + 1,
       !.th[c] = [pc |-> "lock", op |-> op, id |-> id, factory |-> factory,
                  result |-> <<>>]]
  /\ RegFrame

\* lines 296, 303, 315
RegistryLock(c) ==
  /\ reg.th[c].pc = "lock"
  /\ LET write == reg.th[c].op = "Register" IN
       /\ LockFree(write)
       /\ reg' = [reg EXCEPT
            !.writer = IF write THEN c ELSE @,
            !.readers = IF write THEN @ ELSE @ \cup {c},
            !.th[c].pc = IF write THEN "write" ELSE "read"]
  /\ RegFrame

\* line 298: the assignment to the map entry begins
RegisterWrite(c) ==
  /\ reg.th[c].pc = "write"
  /\ reg' = [reg EXCEPT !.strategies[reg.th[c].id] = "partial",
                        !.th[c].pc = "written"]
  /\ RegFrame

\* lines 297-299: the assignment ends and the deferred Unlock runs
RegisterReturn(c) ==
  /\ reg.th[c].pc = "written"
  /\ reg' = [reg EXCEPT !.strategies[reg.th[c].id] = reg.th[c].factory,
                        !.writer = "",
                        !.th[c].pc = "idle"]
  /\ RegFrame

\* lines 306-310
GetLookup(c) ==
  /\ reg.th[c].pc = "read"
  /\ reg.th[c].op = "Get"
  /\ LET factory == reg.strategies[reg.th[c].id] IN
       IF factory = "none"
       THEN reg' = [reg EXCEPT
              !.th[c].pc = "unlock",
              !.th[c].result = [err |-> "NotFound", strategy |-> "nil"]]
       ELSE reg' = [reg EXCEPT
              !.made = @ + 1,
              !.th[c].pc = "unlock",
              !.th[c].result = [err |-> "ok", strategy |-> Product(factory)]]
  /\ RegFrame

\* lines 317-322: the result as the number of Metadata of each kind
ListAll(c) ==
  /\ reg.th[c].pc = "read"
  /\ reg.th[c].op = "List"
  /\ LET metas == {GetMetadata(Product(reg.strategies[id])) : id \in Registered}
     IN reg' = [reg EXCEPT
          !.made = @ + Cardinality(Registered),
          !.th[c].pc = "unlock",
          !.th[c].result =
             [m \in metas |->
                Cardinality({id \in Registered :
                   GetMetadata(Product(reg.strategies[id])) = m})]]
  /\ RegFrame

\* lines 304, 316: the deferred RUnlock; the call returns
RegistryRUnlock(c) ==
  /\ reg.th[c].pc = "unlock"
  /\ reg' = [reg EXCEPT !.readers = @ \ {c}, !.th[c].pc = "idle"]
  /\ RegFrame

NextRegistry ==
  \E c \in Callers :
    \/ \E id \in StrategyIDs, f \in Factories : RegistryCall(c, "Register", id, f)
    \/ \E id \in StrategyIDs : RegistryCall(c, "Get", id, "")
    \/ RegistryCall(c, "List", "", "")
    \/ RegistryLock(c)
    \/ RegisterWrite(c)
    \/ RegisterReturn(c)
    \/ GetLookup(c)
    \/ ListAll(c)
    \/ RegistryRUnlock(c)

\* Goroutines register, look up and list strategies.
SpecRegistry == Init /\ [][NextRegistry]_vars

(***************************************************************************)
(* The max-trend strategy (unnamed/part_002).  A candle is a Candle(k)     *)
(* with one more field: breaks tells whether its close lies beyond the     *)
(* band it is compared with (lines 193 and 199).  The bands themselves,    *)
(* moving averages of the candles' highs and lows, are not computed.       *)
(***************************************************************************)
\* line 155: the warm-up window
WarmUp == 200

\* a window of n candles whose last Len(tail) closes break as tail tells
Candles(n, tail) ==
  [k \in 1..n |->
     [Close |-> Candle(k).Close, Timestamp |-> Candle(k).Timestamp,
      breaks |-> IF k > n - Len(tail) THEN tail[k - (n - Len(tail))]
                 ELSE FALSE]]

Min(a, b) == IF a < b THEN a ELSE b

InputLengths == (0..MaxTail) \cup ((WarmUp - 1)..(WarmUp + MaxTail))

CandleInputs ==
  UNION {{Candles(n, tail) : tail \in [1..Min(n, MaxTail) -> BOOLEAN]}
           : n \in InputLengths}

\* lines 168, 315-330: dist[i] is 0 below the warm-up window, as hma leaves it,
\* and taken as nonzero from there on
DistIsZero(candles, i) ==
  Len(candles) < WarmUp \/ i < WarmUp - 1

\* lines 178-205: direction[0 .. k-1], at position i + 1 for Go index i; the
\* indexes that all take the dist[i-1] == 0 branch are filled in one step
RECURSIVE DirectionsUpTo(_, _)
DirectionsUpTo(candles, k) ==
  IF \A i \in 1..(k - 1) : DistIsZero(candles, i - 1)
  THEN [j \in 1..k |-> 1]
  ELSE LET before == DirectionsUpTo(candles, k - 1)
           i == k - 1
       IN  Append(before,
             IF DistIsZero(candles, i - 1) THEN 1
             ELSE IF before[k - 1] = 1
                  THEN IF candles[k].breaks THEN -1 ELSE 1
                  ELSE IF candles[k].breaks THEN 1 ELSE -1)

\* a calculateTrends that takes any window
calculateTrendsUnchecked(candles) ==
  [err |-> FALSE,
   Directions |->
     [k \in 1..Len(candles) |->
        IF k = 1 THEN 1
        ELSE IF candles[k].breaks # candles[k - 1].breaks THEN -1 ELSE 1]]

\* lines 146-206: s.output.Directions and the error
calculateTrends(candles) ==
  IF Len(candles) < WarmUp
  THEN [err |-> TRUE, Directions |-> [k \in 1..Len(candles) |-> 0]]
  ELSE [err |-> FALSE, Directions |-> DirectionsUpTo(candles, Len(candles))]

\* lines 104-126: the signals at Go indexes 1 .. k-1; the indexes before the
\* first change of direction, which all take the continue of line 110, are
\* passed in one step
RECURSIVE SignalsUpTo(_, _, _)
SignalsUpTo(candles, directions, k) ==
  IF \A j \in 2..k : directions[j - 1] = directions[j] THEN <<>>
  ELSE LET before == SignalsUpTo(candles, directions, k - 1)
           prevDirection == directions[k - 1]
           currDirection == directions[k]
       IN  IF prevDirection = currDirection THEN before
           ELSE IF prevDirection = 1 /\ currDirection = -1
           THEN Append(before,
                  [Type |-> "Long", Index |-> k - 1,
                   Price |-> parseFloat(candles[k].Close),
                   Time |-> candles[k].Timestamp])
           ELSE IF prevDirection = -1 /\ currDirection = 1
           THEN Append(before,
                  [Type |-> "Short", Index |-> k - 1,
                   Price |-> parseFloat(candles[k].Close),
                   Time |-> candles[k].Timestamp])
           ELSE before

\* a GenerateSignals that reports the changes from 1 to -1 only
GenerateSignalsLongOnly(candles) ==
  LET trends == calculateTrends(candles)
      IsLong(signal) == signal.Type = "Long"
  IN  IF trends.err THEN <<>>
      ELSE SelectSeq(SignalsUpTo(candles, trends.Directions,
                                 Len(trends.Directions)), IsLong)

\* lines 97-127; nil is the empty list
GenerateSignals(candles) ==
  LET trends == calculateTrends(candles)
  IN  IF trends.err THEN <<>>
      ELSE SignalsUpTo(candles, trends.Directions, Len(trends.Directions))

\* lines 130-141; Directions only
GetVisualization(candles) ==
  LET trends == calculateTrends(candles)
  IN  IF trends.err THEN [nil |-> TRUE, Directions |-> <<>>]
      ELSE [nil |-> FALSE, Directions |-> trends.Directions]

\* a processCandle that hands over the last signal wherever it lies
WindowOfAnySignal(candles) ==
  LET signals == GenerateSignals(candles)
      latest == candles[Len(candles)]
  IN  [ts |-> latest.Timestamp,
       close |-> parseFloat(latest.Close).n,
       n |-> IF GetVisualization(candles).nil THEN "short" ELSE "full",
       sig |-> IF signals = <<>> THEN "none"
               ELSE signals[Len(signals)].Type]

\* engine.go 205-240: what processCandle takes from the fetched candles
WindowOf(candles) ==
  LET signals == GenerateSignals(candles)
      latest == candles[Len(candles)]
  IN  [ts |-> latest.Timestamp,
       close |-> parseFloat(latest.Close).n,
       n |-> IF GetVisualization(candles).nil THEN "short" ELSE "full",
       sig |-> IF signals = <<>> THEN "none"
               ELSE IF signals[Len(signals)].Index # Len(candles) - 1
               THEN "stale"
               ELSE signals[Len(signals)].Type]

\* what the strategy and processCandle make of each window, worked out once
StrategyOutputs ==
  [candles \in CandleInputs |->
     [signals |-> GenerateSignals(candles),
      visualization |-> GetVisualization(candles),
      window |-> IF candles = <<>> THEN NoCall ELSE WindowOf(candles)]]

\* engine.go 196-255: a poll fetches candles; lastCall keeps what the strategy
\* made of them
PollCandles(o) ==
  \E candles \in CandleInputs \ {<<>>} :
    /\ ProcessCandleOn(o, StrategyOutputs[candles].window)
    /\ lastCall' = [op |-> "poll", id |-> inst[o].ID, err |-> "",
                    candles |-> Len(candles),
                    signals |-> StrategyOutputs[candles].signals,
                    visualization |-> StrategyOutputs[candles].visualization]

\* app.go 125-168: StrategyBacktest hands the strategy's signals to Run; the
\* backtest shares nothing with the engine and is run apart from it
StrategyBacktest(candles, config) ==
  /\ bt.pc = "idle"
  /\ nInst = 0
  /\ bt' = EnterRun(candles, StrategyOutputs[candles].signals, config, 2,
                    StrategyOutputs[candles])
  /\ UNCHANGED <<strategies, nInst, inst, positions, task, stop, tickPending,
                 events, reader, lastCall, ghost, stopAll, reg>>

NextStrategy ==
  \/ \E sym \in Symbols, itv \in Intervals :
       /\ nInst = 0
       /\ bt.pc = "idle"
       /\ StartStrategy("a", "max-trend", sym, itv, ValidParams, BothWays)
  \/ \E o \in Objs :
       \/ RunInit(o)
       \/ Tick(o)
       \/ RunTick(o)
       \/ PollCandles(o)
       \/ HandleSignalOpen(o)
       \/ HandleSignalSet(o)
       \/ TaskCloseGet(o)
       \/ TaskCloseExchange(o)
       \/ TaskCloseMark(o)
       \/ TaskClosePnL(o)
  \/ \E candles \in CandleInputs, config \in BacktestConfigs :
       StrategyBacktest(candles, config)
  \/ BacktestFiltered
  \/ BacktestEnter
  \/ BacktestEnd
  \/ BacktestReturn

\* A strategy is polled on fetched candles, and backtested on fetched candles.
SpecStrategy == Init /\ [][NextStrategy]_vars

(***************************************************************************)
(* Properties.                                                             *)
(***************************************************************************)
\* the Positions opened for o that no adapter close has closed
Unclosed(o) == {p \in 1..Len(ghost[o]) : ~ghost[o][p].closedOk}

\* the task of o has been launched and has not returned
TaskRunning(o) == task[o].pc \notin {"none", "exited"}

\* C1: at most one Position opened for an instance is open at any time: the
\* adapter's open is never answered with a new Position while a Position
\* opened earlier for the instance has not been closed by the adapter.
C1_AtMostOneOpenPosition ==
  \A o \in Allocated : Cardinality(Unclosed(o)) <= 1

\* C2: a Position whose close the adapter refused (and has not closed since)
\* remains the instance's current Position with its open flag set.
C2_FailedCloseKeepsPosition ==
  \A o \in Allocated : \A p \in 1..Len(ghost[o]) :
    (ghost[o][p].closeFailed /\ ~ghost[o][p].closedOk)
      => (inst[o].Position = p /\ positions[o][p].IsOpen)

\* C3: at no time are two tasks running for the same id, a Start that follows
\* a Stop of the same id included.
C3_OneTaskPerId ==
  \A o1 \in Allocated : \A o2 \in Allocated :
    (o1 # o2 /\ inst[o1].ID = inst[o2].ID)
      => ~(TaskRunning(o1) /\ TaskRunning(o2))

\* C4: when StopStrategy was called with the task in the middle of a poll and
\* has returned, the task has ended and no adapter close has failed, then the
\* instance holds no open Position.
C4_StoppedInstanceIsFlat ==
  \A o \in Allocated :
    (/\ stop[o].pc = "done"
     /\ stop[o].mid
     /\ task[o].pc = "exited"
     /\ \A p \in 1..Len(ghost[o]) : ~ghost[o][p].closeFailed)
      => NothingToClose(o)

\* the task's next step writes the field state.Position (SetPosition)
TaskWritesField(o) == task[o].pc = "set"
\* StopStrategy's next step loads the field state.Position
StopReadsField(o) == stop[o].pc \in {"check", "price", "cp_get"}
\* the Position object the thread's next step writes, NilPos for none
WrittenBy(th) == IF th.pc \in {"cp_mark", "cp_pnl"} THEN th.pos ELSE NilPos
\* the Position object the thread's next step loads from, NilPos for none
StopLoadsFrom(o) ==
  IF stop[o].pc \in {"check", "price", "cp_get", "cp_pnl"}
  THEN IF stop[o].pc = "cp_pnl" THEN stop[o].pos ELSE inst[o].Position
  ELSE NilPos
TaskLoadsFrom(o) ==
  IF task[o].pc = "cp_get" THEN inst[o].Position
  ELSE IF task[o].pc = "cp_pnl" THEN task[o].pos
  ELSE NilPos

\* C5: StopStrategy's code after the unlock and the instance's task are never
\* poised on the instance's Position at the same time with one of them
\* writing: neither on the field state.Position nor on the Position object.
C5_NoConcurrentPositionAccess ==
  \A o \in Allocated :
    /\ ~(TaskWritesField(o) /\ StopReadsField(o))
    /\ WrittenBy(task[o]) # NilPos
         => WrittenBy(task[o]) \notin {WrittenBy(stop[o]), StopLoadsFrom(o)}
    /\ WrittenBy(stop[o]) # NilPos
         => WrittenBy(stop[o]) # TaskLoadsFrom(o)

\* the instance a snapshot entry was built from
ObjOf(e) == CHOOSE o \in Allocated : inst[o].ID = e.ID /\ strategies[e.ID] = o

\* C6: every snapshot entry that shows a Position shows one Position of the
\* instance, the old one or the new one of a reversal: its side and its entry
\* price are those of a single Position opened for the instance.
C6_SnapshotShowsOnePosition ==
  \A i \in 1..Len(reader.result) :
    LET e == reader.result[i] IN
      e.HasPosition =>
        \E p \in 1..Len(positions[ObjOf(e)]) :
          /\ positions[ObjOf(e)][p].Side = e.PositionSide
          /\ positions[ObjOf(e)][p].EntryPrice = e.EntryPrice

\* C7: once cancellation has been signalled, the task at its loop boundary
\* starts no further poll.
C7_NoPollAfterCancel ==
  [][\A o \in Objs :
       (inst[o].cancelled /\ task[o].pc = "select") => task'[o].pc # "poll"]_vars

\* everything but the call counter and the record of the last call
Program == <<strategies, nInst, inst, positions, task, stop, tickPending,
             reader, ghost>>

\* C8: a StopStrategy on an id that is not in the table fails with NotFound
\* and changes nothing: table, instances, tasks, Positions and adapter history
\* are as before.
C8_StopUnknownChangesNothing ==
  [][\A id \in Ids :
       (strategies[id] = NoObj /\ lastCall'.op = "Stop" /\ StopStrategy(id))
         => (lastCall'.err = "NotFound" /\ UNCHANGED Program)]_vars

\* C8 happens: the last call was a Stop that missed while another instance was
\* running with a Position
C8_Witness ==
  /\ lastCall.op = "Stop" /\ lastCall.err = "NotFound"
  /\ \E o \in Allocated :
       /\ strategies[inst[o].ID] = o
       /\ TaskRunning(o)
       /\ ~NothingToClose(o)

\* C9: a StartStrategy that returns an error leaves the table, the instances
\* (bound strategy, configuration, Position), the tasks and the Positions as
\* they were.
C9_FailedStartChangesNothing ==
  [][(/\ lastCall'.op = "Start"
       /\ lastCall'.err # "ok"
       /\ \E id \in Ids, sid \in StrategyIDs, sym \in Symbols,
             itv \in Intervals, p \in ParamMaps, cfg \in Configs :
            StartStrategy(id, sid, sym, itv, p, cfg))
        => UNCHANGED Program]_vars

\* C9 happens: the last call was a Start refused as already running, on an id
\* whose instance holds an open Position
C9_Witness ==
  /\ lastCall.op = "Start" /\ lastCall.err = "AlreadyRunning"
  /\ strategies[lastCall.id] # NoObj
  /\ ~NothingToClose(strategies[lastCall.id])

\* the ids of a snapshot
SnapshotIds == {reader.result[i].ID : i \in 1..Len(reader.result)}

\* C10: a complete snapshot holds exactly the ids of the table, each once, and
\* each entry is the whole entry of its instance.
C10_SnapshotIsTable ==
  SnapshotDone =>
    /\ SnapshotIds = Table
    /\ Len(reader.result) = Cardinality(Table)
    /\ \A i \in 1..Len(reader.result) :
         reader.result[i] = InfoOf(strategies[reader.result[i].ID])

\* C10 happens: a complete, non-empty snapshot taken after a Start of two ids
\* and a Stop of one of them
C10_Witness ==
  /\ SnapshotDone
  /\ reader.result # <<>>
  /\ nInst = 2
  /\ \E o \in Allocated : stop[o].pc # "none"

\* C11: when GetRunningStrategies builds an entry, it sets the open-position
\* flag exactly when the instance holds an open Position at that moment.
C11_FlagIffOpenPosition ==
  [][\A id \in Ids :
       ReadEntry(id)
         => ((reader'.pc = "side") <=> ~NothingToClose(strategies[id]))]_vars

\* the stop path of o has made its attempt to close at the adapter, or has
\* passed the point where it could
StopPastClose(o) == stop[o].pc \in {"cp_mark", "cp_pnl", "done"}

\* C12: a StopStrategy succeeds exactly when its id is in the table, whether
\* the task still runs or has returned; a successful one removes the id, so a
\* second one finds nothing, and it is the first stop of its instance; the
\* stop path of an instance never comes back to the adapter's close.
C12_StopOnce ==
  [][/\ \A id \in Ids :
          (lastCall'.op = "Stop" /\ StopStrategy(id)) =>
            IF strategies[id] = NoObj
            THEN lastCall'.err = "NotFound" /\ stop' = stop
            ELSE /\ lastCall'.err = "ok"
                 /\ strategies'[id] = NoObj
                 /\ stop[strategies[id]].pc = "none"
                 /\ stop'[strategies[id]].pc = "check"
     /\ \A o \in Objs :
          /\ stop[o].pc # "none" => stop'[o].pc # "none"
          /\ stop[o].pc \notin {"none", "check"} => stop'[o].pc # "check"
          /\ StopPastClose(o) => StopPastClose(o)']_vars

\* C12 happens: a second StopStrategy of an id missed, after the first one
\* closed the instance's Position and the task returned
C12_Witness ==
  /\ lastCall.op = "Stop" /\ lastCall.err = "NotFound"
  /\ \E o \in Allocated :
       /\ inst[o].ID = lastCall.id
       /\ stop[o].pc = "done"
       /\ task[o].pc = "exited"
       /\ inst[o].Position # NilPos
       /\ positions[o][inst[o].Position].ExitReason = "Strategy Stopped"

\* C13: when StopAllStrategies returns and no instance was started since it
\* collected the ids, the table is empty and every instance that was in the
\* table is cancelled; an id that a concurrent StopStrategy removed first is
\* passed over without touching table, instances, tasks, stop paths or
\* Positions; and no stop path is started a second time.
C13_StopAllStopsAll ==
  [][/\ (stopAll'.pc = "returned" /\ nInst' = stopAll'.n0)
          => /\ \A id \in Ids : strategies'[id] = NoObj
             /\ \A o \in stopAll'.objs :
                  inst'[o].cancelled /\ ~inst'[o].IsRunning
     /\ \A id \in Ids :
          (stopAll.pc = "loop" /\ strategies[id] = NoObj /\ StopAllNext(id))
            => /\ UNCHANGED <<strategies, inst, task, stop, positions, ghost>>
               /\ stopAll'.pc = "loop"
     /\ \A o \in Objs :
          stop[o].pc \notin {"none", "check"} => stop'[o].pc # "check"]_vars

\* C13 happens: StopAllStrategies has returned, having passed over an instance
\* that held a Position and that a concurrent StopStrategy removed and closed
C13_Witness ==
  /\ stopAll.pc = "returned"
  /\ nInst = stopAll.n0
  /\ \E o \in stopAll.objs :
       /\ inst[o].ID \in stopAll.missed
       /\ inst[o].Position # NilPos
       /\ positions[o][inst[o].Position].ExitReason = "Strategy Stopped"

\* C14: the task of an instance returns only after the instance's
\* cancellation has been signalled: no failed fetch makes it return.
C14_TaskEndsOnlyWhenCancelled ==
  [][\A o \in Objs :
       (task[o].pc # "exited" /\ task'[o].pc = "exited")
         => inst[o].cancelled]_vars

\* C15: once StopStrategy has cancelled an instance, its task eventually
\* returns, whatever call it has in flight.
C15_StoppedTaskTerminates ==
  \A o \in Objs :
    (stop[o].pc # "none" /\ inst[o].cancelled) ~> (task[o].pc = "exited")

\* the Positions the replay holds open: in the ledger or as currentPosition;
\* after the end-of-period close currentPosition and the last ledger entry
\* are the same closed Position
OpenInLedger == {k \in 1..Len(bt.positions) : bt.positions[k].IsOpen}
HeldOpen == Cardinality(OpenInLedger) + (IF bt.currentPosition.IsOpen THEN 1 ELSE 0)

\* C16: the Backtester's replay never holds two open Positions at once, and
\* every Position in the ledger that Run returns is closed.
C16_OneOpenAllClosed ==
  /\ HeldOpen <= 1
  /\ bt.pc \in {"metrics", "done"} => OpenInLedger = {}
  /\ bt.pc = "done" =>
       \A k \in 1..Len(bt.result.Positions) : ~bt.result.Positions[k].IsOpen

\* C16 happens: Run returned a ledger of two reversals and an end-of-period
\* close
C16_Witness ==
  /\ bt.pc = "done"
  /\ Len(bt.result.Positions) = 3
  /\ bt.result.Positions[1].ExitReason = "Trend Reversal"
  /\ bt.result.Positions[3].ExitReason = "End of Period"

\* the signal at the head of the loop is actionable, passes the direction
\* filter and has the side of the Position that is open
SameSideSignal ==
  /\ BtAtSignal
  /\ BtActionable
  /\ ~Filtered(bt.config, BtSide)
  /\ bt.currentPosition.IsOpen
  /\ bt.currentPosition.Side = BtSide

\* C17: in the Backtester a signal of the side of the open Position does
\* nothing: the ledger gets no entry and the open Position stays as it is,
\* with its entry index, price and time.
C17_SameSideSignalIsNoOp ==
  [][SameSideSignal =>
       /\ bt'.positions = bt.positions
       /\ bt'.currentPosition = bt.currentPosition]_vars

\* the sides of the Positions of a ledger
SidesOf(ledger) == {ledger[k].Side : k \in 1..Len(ledger)}

\* the side that config.TradeDirection excludes, if any
ExcludedSides ==
  IF bt.config.TradeDirection = "long" THEN {"short"}
  ELSE IF bt.config.TradeDirection = "short" THEN {"long"}
  ELSE {}

\* C18: under TradeDirection "long" no short Position is ever in the ledger or
\* open, and under "short" no long one; a signal of the excluded side is
\* passed over: it neither opens a Position nor closes the open one.
C18_DirectionFilter ==
  [][/\ SidesOf(bt'.positions) \cap ExcludedSides = {}
     /\ bt'.currentPosition.IsOpen => bt'.currentPosition.Side \notin ExcludedSides
     /\ bt'.pc = "done" => SidesOf(bt'.result.Positions) \cap ExcludedSides = {}
     /\ (BtAtSignal /\ BtActionable /\ BtSide \in ExcludedSides) =>
          /\ bt'.positions = bt.positions
          /\ bt'.currentPosition = bt.currentPosition
          /\ bt'.pc = "loop"
          /\ bt'.i = bt.i + 1]_vars

\* C18 happens: under TradeDirection "long" a Short signal arrived while a
\* long was open, and the long was closed only at the end of the period
C18_Witness ==
  /\ bt.pc = "done"
  /\ bt.config.TradeDirection = "long"
  /\ Len(bt.signals) >= 2
  /\ bt.signals[1].Type = "Long"
  /\ bt.signals[2].Type = "Short"
  /\ Len(bt.result.Positions) = 1
  /\ bt.result.Positions[1].Side = "long"
  /\ bt.result.Positions[1].ExitReason = "End of Period"

ClosedInLedger == {k \in 1..Len(bt.positions) : ~bt.positions[k].IsOpen}

\* the Position as the live Position Manager holds it: plain numbers
AsLive(pos) ==
  [Side |-> pos.Side, Size |-> pos.Size.n, EntryPrice |-> pos.EntryPrice.n]

PnLsOf(ledger) == [k \in 1..Len(ledger) |-> ledger[k].PnL]

RECURSIVE RatSum(_)
RatSum(xs) == IF xs = <<>> THEN Zero ELSE RatAdd(Head(xs), RatSum(Tail(xs)))

\* the mean of a sequence of numbers, 0 for none
Mean(xs) == IF xs = <<>> THEN Zero ELSE RatDiv(RatSum(xs), Rat(Len(xs), 1))

Positive(x) == RatLess(Zero, x)
Negative(x) == RatLess(x, Zero)
Wins(ledger) == SelectSeq(PnLsOf(ledger), Positive)
Losses(ledger) == SelectSeq(PnLsOf(ledger), Negative)
AbsLosses(ledger) == [k \in 1..Len(Losses(ledger)) |-> RatNeg(Losses(ledger)[k])]

\* totalTrades, winRate, averageWin and profitFactor as C21 states them
MetricsButAverageLoss ==
  bt.pc = "done" =>
    LET m == bt.result.Metrics
        ledger == bt.result.Positions
    IN  /\ m.totalTrades = Len(ledger)
        /\ m.winningTrades = Len(Wins(ledger))
        /\ m.totalTrades > 0 =>
             m.winRate = Rat(m.winningTrades * 100, m.totalTrades)
        /\ m.averageWin = Mean(Wins(ledger))
        /\ m.profitFactor =
             IF RatSum(AbsLosses(ledger)) = Zero THEN Zero
             ELSE RatDiv(RatSum(Wins(ledger)), RatSum(AbsLosses(ledger)))
        /\ PnLsOf(ledger) = <<Rat(100, 1), Rat(-50, 1), Rat(30, 1)>> =>
             /\ m.winningTrades = 2 /\ m.losingTrades = 1
             /\ m.averageWin = Rat(65, 1) /\ m.averageLoss = Rat(50, 1)
             /\ m.profitFactor = Rat(26, 10)

\* C21: for every ledger of closed positions, totalTrades is their number,
\* winRate is winningTrades / totalTrades * 100, averageWin is the mean of the
\* positive PnLs, averageLoss the mean of the absolute values of the negative
\* PnLs, profitFactor the sum of wins over the sum of absolute losses, 0 with
\* no loss; PnLs +100, -50, +30 give 2 wins, 1 loss, 65, 50 and 2.6.
C21_MetricsAsStated ==
  /\ MetricsButAverageLoss
  /\ bt.pc = "done" =>
       bt.result.Metrics.averageLoss = Mean(AbsLosses(bt.result.Positions))

\* the three cases in which HandleSignal(o, sig, _) is to do nothing
NoOpCase(o, sig) ==
  \/ sig \notin {"Long", "Short"}
  \/ Filtered(inst[o].Config, SideOf(sig))
  \/ /\ ~NothingToClose(o)
     /\ positions[o][inst[o].Position].Side = SideOf(sig)

\* C22: HandleSignal makes no adapter call and leaves the instance's Position
\* as it is when the signal is neither Long nor Short, when its side is
\* excluded by TradeDirection (whatever Position is open), and when an open
\* Position of its side is held.
C22_IgnoredSignals ==
  [][\A o \in Objs :
       (/\ task[o].pc = "poll"
        /\ task'[o].pc # "poll"
        /\ lastCall'.op = "HandleSignal"
        /\ NoOpCase(o, lastCall'.sig))
         => /\ task'[o].pc = "select"
            /\ positions' = positions
            /\ ghost' = ghost
            /\ inst'[o].Position = inst[o].Position]_vars

\* C22 happens: under TradeDirection "long" HandleSignal was called with a
\* Short signal while a long was open, and returned with the long still open
C22_Witness ==
  /\ lastCall.op = "HandleSignal"
  /\ lastCall.sig = "Short"
  /\ \E o \in Allocated :
       /\ task[o].pc = "select"
       /\ inst[o].Config.TradeDirection = "long"
       /\ ~NothingToClose(o)
       /\ positions[o][inst[o].Position].Side = "long"

\* C23: when the adapter's OpenPosition fails inside HandleSignal, SetPosition
\* is not called: no Position is recorded, the instance keeps the Position
\* reference it had, and HandleSignal returns.
C23_FailedOpenRecordsNothing ==
  [][\A o \in Objs :
       (/\ task[o].pc = "open"
        /\ task'[o].pc # "open"
        /\ lastCall'.op = "OpenPosition"
        /\ lastCall'.err = "failed")
         => /\ task'[o].pc = "select"
            /\ positions' = positions
            /\ inst' = inst]_vars

\* C23 happens: the OpenPosition call for a signal failed and the instance,
\* which has polled a candle, holds no Position
C23_Witness ==
  /\ lastCall.op = "OpenPosition"
  /\ lastCall.err = "failed"
  /\ \E o \in Allocated :
       /\ task[o].pc = "select"
       /\ inst[o].Position = NilPos
       /\ positions[o] = <<>>
       /\ inst[o].LastCandleTime > 0

\* the positions of a thread that has passed the adapter call of ClosePosition
PastAdapterClose == {"cp_mark", "cp_pnl"}

Gain100(pos, price) ==
  IF pos.Side = "long" THEN (price - pos.EntryPrice) * 100
  ELSE (pos.EntryPrice - price) * 100

\* the close C25 expects of CheckTPSL, "" for none; the PnL percent p is
\* Gain100 / entry
ExpectedTPSL(cfg, pos, price) ==
  IF cfg.TakeProfitPercent > 0
     /\ Gain100(pos, price) >= cfg.TakeProfitPercent * pos.EntryPrice
  THEN "Take Profit"
  ELSE IF cfg.StopLossPercent > 0
          /\ Gain100(pos, price) <= (0 - cfg.StopLossPercent) * pos.EntryPrice
       THEN "Stop Loss"
       ELSE ""

\* C25: CheckTPSL on an open Position with PnL percent p closes with "Take
\* Profit" when TakeProfitPercent > 0 and p >= TakeProfitPercent, otherwise
\* with "Stop Loss" when StopLossPercent > 0 and p <= -StopLossPercent,
\* otherwise does nothing; it starts at most one close, at the current price;
\* a long entered at 100 with both thresholds 5 gives "Take Profit" at 105.5,
\* "Stop Loss" at 94 and nothing at 102.
C25_TakeProfitStopLoss ==
  [][\A o \in Objs :
       (/\ task[o].pc = "poll"
        /\ task'[o].pc # "poll"
        /\ lastCall'.op = "CheckTPSL"
        /\ ~NothingToClose(o))
         => LET pos == positions[o][inst[o].Position]
                cfg == inst[o].Config
                price == lastCall'.price
                r == ExpectedTPSL(cfg, pos, price)
            IN  /\ UNCHANGED <<positions, ghost>>
                /\ inst'[o].Position = inst[o].Position
                /\ IF r = "" THEN task'[o].pc = "select"
                   ELSE /\ task'[o].pc = "cp_get"
                        /\ task'[o].price = price
                        /\ task'[o].reason = r
                /\ (/\ pos.Side = "long" /\ pos.EntryPrice = 1000
                    /\ cfg.TakeProfitPercent = 5 /\ cfg.StopLossPercent = 5)
                     => /\ price = 1055 => task'[o].reason = "Take Profit"
                        /\ price = 940 => task'[o].reason = "Stop Loss"
                        /\ price = 1020 => task'[o].pc = "select"]_vars

\* C25 happens: a long entered at 100 under thresholds 5 and 5 was closed by
\* the CheckTPSL of a poll at 105.5 with "Take Profit"
C25_Witness ==
  /\ lastCall.op = "CheckTPSL"
  /\ lastCall.price = 1055
  /\ \E o \in Allocated :
       /\ task[o].pc = "select"
       /\ inst[o].Config.TakeProfitPercent = 5
       /\ inst[o].Config.StopLossPercent = 5
       /\ inst[o].Position # NilPos
       /\ LET pos == positions[o][inst[o].Position]
          IN  /\ pos.Side = "long" /\ pos.EntryPrice = 1000
              /\ ~pos.IsOpen /\ pos.ExitReason = "Take Profit"
              /\ pos.ExitPrice = 1055

\* the Position that the adapter's OpenPosition returned to HandleSignal
AdapterReturned(o) == positions[o][Len(positions[o])]

\* C26: the entry price HandleSignal records on the instance's Position is
\* the fill price in the Position the adapter's open operation returned,
\* whatever currentPrice HandleSignal was called with.
C26_EntryPriceIsFillPrice ==
  [][\A o \in Objs :
       (task[o].pc = "set" /\ task'[o].pc # "set")
         => /\ inst'[o].Position # NilPos
            /\ positions'[o][inst'[o].Position].EntryPrice
                 = AdapterReturned(o).EntryPrice]_vars

\* the number of Metadata in the result of List
RECURSIVE Listed(_)
Listed(result) ==
  IF DOMAIN result = {} THEN 0
  ELSE LET m == CHOOSE x \in DOMAIN result : TRUE
       IN  result[m] + Listed([y \in DOMAIN result \ {m} |-> result[y]])

\* C27: Get on an identifier never registered fails with NotFound, produces
\* no strategy and leaves the mapping as it is; Get on a registered one
\* returns the product of its factory; List returns one Metadata per
\* registered identifier; no Get or List reads an entry in mid-assignment, no
\* writer holds the lock together with a reader, and the mapping does not
\* change while a reader holds the lock.
C27_RegistryContract ==
  [][/\ \A c \in Callers :
          (reg.th[c].pc = "read" /\ reg'.th[c].pc = "unlock") =>
            /\ reg'.strategies = reg.strategies
            /\ \A id \in StrategyIDs : reg.strategies[id] # "partial"
            /\ IF reg.th[c].op = "Get"
               THEN LET factory == reg.strategies[reg.th[c].id] IN
                      IF factory = "none"
                      THEN /\ reg'.th[c].result.err = "NotFound"
                           /\ reg'.th[c].result.strategy = "nil"
                           /\ reg'.made = reg.made
                      ELSE /\ reg'.th[c].result.err = "ok"
                           /\ reg'.th[c].result.strategy = Product(factory)
               ELSE /\ Listed(reg'.th[c].result) = Cardinality(Registered)
                    /\ \A id \in Registered :
                         GetMetadata(Product(reg.strategies[id]))
                           \in DOMAIN reg'.th[c].result
     /\ reg'.writer # "" => reg'.readers = {}
     /\ reg.readers # {} => reg'.strategies = reg.strategies]_vars

\* C27 happens: a List is waiting for the lock while a Register is in the
\* middle of its assignment, a third call having been made before
C27_Witness ==
  \E c, d \in Callers :
    /\ reg.th[c].op = "Register"
    /\ reg.th[c].pc = "written"
    /\ reg.strategies[reg.th[c].id] = "partial"
    /\ reg.th[d].op = "List"
    /\ reg.th[d].pc = "lock"
    /\ reg.calls = MaxRegistryCalls

(***************************************************************************)
(* C28: GenerateSignals fails closed on short input: on every candle       *)
(* sequence shorter than the warm-up window it returns no signals, and the *)
(* poll or the backtest that called it opens no Position: the poll hands   *)
(* nothing to HandleSignal and leaves the positions as they were, the      *)
(* backtest has an empty ledger and no current Position.                   *)
(***************************************************************************)
C28_ShortInputFailsClosed ==
  [][/\ \A o \in Objs :
          (/\ task[o].pc = "poll"
           /\ task'[o].pc # "poll"
           /\ lastCall'.op = "poll"
           /\ lastCall'.candles < WarmUp)
            => /\ lastCall'.signals = <<>>
               /\ task'[o].pc \notin {"open", "set"}
               /\ task'[o].reason # "Trend Reversal"
               /\ positions' = positions
     /\ (bt'.pc # "idle" /\ Len(bt'.candles) < WarmUp)
          => /\ bt'.signals = <<>>
             /\ bt'.positions = <<>>
             /\ ~bt'.currentPosition.IsOpen]_vars

\* a poll on one candle less than the warm-up window went back to waiting
C28_Witness ==
  /\ lastCall.op = "poll"
  /\ lastCall.candles = WarmUp - 1
  /\ lastCall.visualization.nil
  /\ \E o \in Allocated :
       /\ task[o].pc = "select"
       /\ inst[o].LastCandleTime = WarmUp - 1
       /\ inst[o].LastVisualization = "nil"
       /\ NothingToClose(o)

\* the direction before and at Go index i changes, from one of 1, -1 to the
\* other
Flip(directions, i) ==
  \/ directions[i] = 1 /\ directions[i + 1] = -1
  \/ directions[i] = -1 /\ directions[i + 1] = 1

SignalsMatchDirections(signals, visualization) ==
  IF visualization.nil THEN signals = <<>>
  ELSE LET directions == visualization.Directions IN
       /\ \A k \in 1..Len(signals) :
            LET i == signals[k].Index IN
            /\ i >= 1
            /\ i < Len(directions)
            /\ directions[i] # directions[i + 1]
            /\ signals[k].Type = "Long"
                 => directions[i] = 1 /\ directions[i + 1] = -1
            /\ signals[k].Type = "Short"
                 => directions[i] = -1 /\ directions[i + 1] = 1
            /\ signals[k].Type \in {"Long", "Short"}
       /\ \A i \in 1..(Len(directions) - 1) :
            Flip(directions, i)
              => Cardinality({k \in 1..Len(signals) : signals[k].Index = i}) = 1

(***************************************************************************)
(* C29: Signals and visualization are consistent: at the index i of every  *)
(* signal of GenerateSignals the visualization's direction changes between *)
(* i-1 and i, from 1 to -1 for a Long and from -1 to 1 for a Short, and    *)
(* every such change at an index i >= 1 has exactly one signal at i.  It   *)
(* is stated of what a poll and what a backtest got from the strategy.     *)
(***************************************************************************)
C29_SignalsMatchVisualization ==
  /\ lastCall.op = "poll"
       => SignalsMatchDirections(lastCall.signals, lastCall.visualization)
  /\ bt.pc # "idle"
       => SignalsMatchDirections(bt.first.signals, bt.first.visualization)

\* a poll got a Long and a Short signal from the strategy
C29_Witness ==
  /\ lastCall.op = "poll"
  /\ ~lastCall.visualization.nil
  /\ \E k, l \in 1..Len(lastCall.signals) :
       /\ lastCall.signals[k].Type = "Long"
       /\ lastCall.signals[l].Type = "Short"
       /\ lastCall.signals[k].Index < lastCall.signals[l].Index

\* lines 83-94: the signal at hand is actionable, passes the filter and is on
\* the other side than the open Position
Reversal ==
  /\ BtAtSignal
  /\ BtActionable
  /\ ~Filtered(bt.config, BtSide)
  /\ bt.currentPosition.IsOpen
  /\ bt.currentPosition.Side # BtSide

(***************************************************************************)
(* C30: On a reversal in the Backtester (an actionable, non-filtered       *)
(* signal whose side differs from the open Position's side) the open       *)
(* Position is closed with exit price and exit index equal to the signal's *)
(* and with reason "Trend Reversal", it is appended to the ledger, and a   *)
(* new Position is opened with entry price, index and time equal to that   *)
(* same signal's and with size config.PositionSize.  The signal's index    *)
(* lies within the candles, as the index of every signal of a strategy     *)
(* does.                                                                   *)
(***************************************************************************)
C30_ReversalClosesAndReopens ==
  [][(/\ Reversal
      /\ ~OutOfRange(bt.candles, BtSignal.Index)
      /\ bt' # bt)
       => LET closed == bt'.positions[Len(bt'.positions)]
              opened == bt'.currentPosition
          IN  /\ bt'.pc = "loop"
              /\ bt'.i = bt.i + 1
              /\ Len(bt'.positions) = Len(bt.positions) + 1
              /\ SubSeq(bt'.positions, 1, Len(bt.positions)) = bt.positions
              /\ ~closed.IsOpen
              /\ closed.ExitPrice = BtSignal.Price
              /\ closed.ExitIndex = BtSignal.Index
              /\ closed.ExitReason = "Trend Reversal"
              /\ closed.Side = bt.currentPosition.Side
              /\ closed.EntryIndex = bt.currentPosition.EntryIndex
              /\ closed.EntryPrice = bt.currentPosition.EntryPrice
              /\ closed.EntryTime = bt.currentPosition.EntryTime
              /\ closed.Size = bt.currentPosition.Size
              /\ opened.IsOpen
              /\ opened.Side = BtSide
              /\ opened.EntryPrice = BtSignal.Price
              /\ opened.EntryIndex = BtSignal.Index
              /\ opened.EntryTime = BtSignal.Time
              /\ opened.Size = Rat(bt.config.PositionSize, 1)]_vars

\* a long was closed by a Short signal that opened the short now held
C30_Witness ==
  /\ bt.pc = "loop"
  /\ bt.positions # <<>>
  /\ bt.currentPosition.IsOpen
  /\ bt.currentPosition.Side = "short"
  /\ LET closed == bt.positions[Len(bt.positions)] IN
       /\ closed.Side = "long"
       /\ closed.ExitReason = "Trend Reversal"
       /\ closed.ExitIndex = bt.currentPosition.EntryIndex
       /\ closed.ExitPrice = bt.currentPosition.EntryPrice
       /\ closed.EntryPrice # closed.ExitPrice

\* line 111 is reached: every signal has been consumed
SignalsConsumed ==
  /\ bt.pc = "loop"
  /\ bt.i = Len(bt.signals)

(***************************************************************************)
(* C31: After the Backtester has consumed all signals, a Position that is  *)
(* still open is closed at the last candle's closing price with exit index *)
(* equal to the last candle's index and reason "End of Period", and is the *)
(* last entry of the ledger; when no Position is open at that point        *)
(* nothing is appended.  There is a last candle whenever a Position is     *)
(* open, as there is for the signals of a strategy.                        *)
(***************************************************************************)
C31_EndOfPeriodClose ==
  [][(/\ SignalsConsumed
      /\ bt.currentPosition.IsOpen => bt.candles # <<>>
      /\ bt' # bt)
       => /\ bt'.pc = "metrics"
          /\ IF bt.currentPosition.IsOpen
             THEN LET closed == bt'.positions[Len(bt'.positions)]
                      last == Len(bt.candles)
                  IN  /\ Len(bt'.positions) = Len(bt.positions) + 1
                      /\ SubSeq(bt'.positions, 1, Len(bt.positions))
                           = bt.positions
                      /\ ~closed.IsOpen
                      /\ closed.ExitPrice = parseFloat(bt.candles[last].Close)
                      /\ closed.ExitIndex = last - 1
                      /\ closed.ExitReason = "End of Period"
                      /\ closed.Side = bt.currentPosition.Side
                      /\ closed.EntryIndex = bt.currentPosition.EntryIndex
                      /\ closed.EntryPrice = bt.currentPosition.EntryPrice
                      /\ closed.Size = bt.currentPosition.Size
             ELSE bt'.positions = bt.positions]_vars

\* the Position opened by the only signal was closed on the last of three
\* candles, at another price than it was entered
C31_Witness ==
  /\ bt.pc = "metrics"
  /\ Len(bt.candles) = 3
  /\ Len(bt.positions) = 1
  /\ bt.positions[1].ExitReason = "End of Period"
  /\ bt.positions[1].ExitIndex = 2
  /\ bt.positions[1].EntryIndex = 0
  /\ bt.positions[1].ExitPrice = parseFloat(bt.candles[3].Close)

\* the length of the longest run of consecutive members of xs that pass Test
LongestRun(xs, Test(_)) ==
  LET Runs == {n \in 0..Len(xs) :
                 \E i \in 1..(Len(xs) - n + 1) :
                   \A j \in i..(i + n - 1) : Test(xs[j])}
  IN  CHOOSE n \in Runs : \A m \in Runs : m <= n

\* the win streak as C32 states it, and the loss streak on ledgers without a
\* PnL of 0
StreaksButZeroPnL ==
  bt.pc = "done" =>
    LET m == bt.result.Metrics
        pnls == PnLsOf(bt.result.Positions)
    IN  /\ m.longestWinStreak = LongestRun(pnls, Positive)
        /\ (\A k \in 1..Len(pnls) : pnls[k] # Zero)
             => m.longestLossStreak = LongestRun(pnls, Negative)
        /\ pnls = <<Rat(100, 1), Rat(-50, 1), Rat(30, 1)>>
             => m.longestWinStreak = 1 /\ m.longestLossStreak = 1

(***************************************************************************)
(* C32: longestWinStreak and longestLossStreak are the lengths of the      *)
(* longest run of consecutive winning, respectively losing, positions in   *)
(* ledger order, a winning position being one of positive and a losing one *)
(* of negative PnL; for PnLs +100, -50, +30 both streaks are 1.            *)
(***************************************************************************)
C32_StreaksAsStated ==
  /\ StreaksButZeroPnL
  /\ bt.pc = "done" =>
       bt.result.Metrics.longestLossStreak
         = LongestRun(PnLsOf(bt.result.Positions), Negative)

\* the close of the latest of n fetched candles, as processCandle passes it on
LatestClose(n) == parseFloat(Candle(n).Close).n

(***************************************************************************)
(* C33: On every poll whose fetch returns a non-empty window whose latest  *)
(* candle timestamp has not advanced beyond the last processed one, the    *)
(* task invokes CheckTPSL with the latest candle's close price, and does   *)
(* not regenerate signals or call HandleSignal: the task goes on as        *)
(* CheckTPSL on that price tells, LastCandleTime and LastVisualization     *)
(* stay as they were, and no Position is opened or reversed.               *)
(***************************************************************************)
C33_OldCandleOnlyChecksTPSL ==
  [][\A o \in Objs :
       (/\ task[o].pc = "poll"
        /\ task'[o].pc # "poll"
        /\ lastCall'.op = "poll"
        /\ lastCall'.candles <= inst[o].LastCandleTime)
         => /\ task'[o] = CheckTPSL(o, LatestClose(lastCall'.candles))
            /\ inst' = inst
            /\ positions' = positions
            /\ task'[o].pc \notin {"open", "set"}
            /\ task'[o].reason # "Trend Reversal"]_vars

\* a poll on a window that ends before the last processed candle found the
\* open Position past a threshold and started its close
C33_Witness ==
  /\ lastCall.op = "poll"
  /\ \E o \in Allocated :
       /\ lastCall.candles < inst[o].LastCandleTime
       /\ ~NothingToClose(o)
       /\ task[o].pc = "cp_get"
       /\ task[o].reason \in {"Take Profit", "Stop Loss"}
       /\ task[o].price = LatestClose(lastCall.candles)

\* lines 231-241: the strategy produced a signal and the last one lies on the
\* last of the fetched candles
FreshSignal(call) ==
  /\ call.signals # <<>>
  /\ call.signals[Len(call.signals)].Index = call.candles - 1

(***************************************************************************)
(* C34: On a poll where a new candle has arrived, the task hands a signal  *)
(* to the Position Manager if and only if the strategy produced at least   *)
(* one signal and the index of the last signal equals the index of the     *)
(* last candle of the fetched window; the signal handed over is that last  *)
(* signal, with the latest close as price, and in every other case the     *)
(* poll makes no adapter call and goes back to waiting.                    *)
(***************************************************************************)
C34_OnlyFreshSignalHandedOver ==
  [][\A o \in Objs :
       (/\ task[o].pc = "poll"
        /\ task'[o].pc # "poll"
        /\ lastCall'.op = "poll"
        /\ lastCall'.candles > inst[o].LastCandleTime)
         => /\ positions' = positions
            /\ ghost' = ghost
            /\ IF FreshSignal(lastCall')
               THEN task'[o] =
                      HandleSignal(o,
                        lastCall'.signals[Len(lastCall'.signals)].Type,
                        LatestClose(lastCall'.candles))
               ELSE task'[o] = [IdleTask EXCEPT !.pc = "select"]]_vars

\* a poll on a new candle handed the second of two signals, the one on the
\* last candle, to HandleSignal, which started the reversal
C34_Witness ==
  /\ lastCall.op = "poll"
  /\ Len(lastCall.signals) = 2
  /\ FreshSignal(lastCall)
  /\ \E o \in Allocated :
       /\ inst[o].LastCandleTime = lastCall.candles
       /\ task[o].pc = "cp_get"
       /\ task[o].reason = "Trend Reversal"
       /\ task[o].side = SideOf(lastCall.signals[2].Type)
       /\ task[o].price = LatestClose(lastCall.candles)

\* the poll of o regenerated signals and visualization, or handed a signal to
\* HandleSignal
Regenerated(o) ==
  \/ inst'[o] # inst[o]
  \/ task'[o].pc \in {"open", "set"}
  \/ task'[o].reason = "Trend Reversal"

(***************************************************************************)
(* C35: Within one instance's task, the last-seen-candle timestamp never   *)
(* decreases, and each candle timestamp causes at most one signal          *)
(* regeneration and at most one HandleSignal call: a poll regenerates or   *)
(* hands over a signal only on a candle newer than every candle processed  *)
(* before, and leaves that candle's timestamp as the last one seen, so a   *)
(* later poll that sees the same latest candle does neither.               *)
(***************************************************************************)
C35_OncePerCandle ==
  [][\A o \in Objs :
       /\ inst'[o].LastCandleTime >= inst[o].LastCandleTime
       /\ (/\ task[o].pc = "poll"
           /\ task'[o].pc # "poll"
           /\ lastCall'.op = "poll"
           /\ Regenerated(o))
            => /\ lastCall'.candles > inst[o].LastCandleTime
               /\ inst'[o].LastCandleTime = lastCall'.candles
       /\ (/\ task[o].pc = "poll"
           /\ task'[o].pc # "poll"
           /\ lastCall'.op = "poll"
           /\ lastCall'.candles = inst[o].LastCandleTime)
            => ~Regenerated(o)]_vars

\* the Position was opened on the first candle that can carry a signal, and
\* a later poll saw the same candle again, its close no longer across the band
C35_Witness ==
  /\ lastCall.op = "poll"
  /\ lastCall.candles = WarmUp + 1
  /\ lastCall.signals = <<>>
  /\ \E o \in Allocated :
       /\ inst[o].LastCandleTime = WarmUp + 1
       /\ ~NothingToClose(o)
       /\ task[o].pc = "select"

\* the task of o has returned and no StopStrategy has reached o: run returned
\* at line 171
ExitedAlone(o) ==
  /\ o \in Allocated
  /\ task[o].pc = "exited"
  /\ stop[o].pc = "none"

\* the snapshot GetRunningStrategies is about to return lists id as running
ListedRunning(id) ==
  \E k \in 1..Len(reader.result) :
    /\ reader.result[k].ID = id
    /\ reader.result[k].IsRunning

(***************************************************************************)
(* C36: A task that exits on its own because its warm-up fetch failed does *)
(* not remove its instance from the table: the id stays listed by          *)
(* GetRunningStrategies with IsRunning true, and StartStrategy with that   *)
(* id keeps failing with AlreadyRunning, until StopStrategy is called for  *)
(* it.                                                                     *)
(***************************************************************************)
C36_FailedWarmUpStaysInTable ==
  [][\A o \in Objs :
       ExitedAlone(o)
         => /\ strategies[inst[o].ID] = o
            /\ inst[o].IsRunning
            /\ (SnapshotDone /\ reader'.pc = "idle")
                 => ListedRunning(inst[o].ID)
            /\ \A sym \in Symbols, itv \in Intervals, cfg \in Configs :
                 StartStrategy(inst[o].ID, "max-trend", sym, itv,
                               ValidParams, cfg)
                   => /\ lastCall'.err = "AlreadyRunning"
                      /\ strategies' = strategies
                      /\ nInst' = nInst
            /\ \/ /\ task'[o].pc = "exited"
                  /\ stop'[o].pc = "none"
                  /\ strategies'[inst[o].ID] = o
               \/ /\ lastCall'.op = "Stop"
                  /\ lastCall'.id = inst[o].ID
                  /\ stop'[o].pc # "none"]_vars

\* after the task returned from a failed warm-up fetch, a second StartStrategy
\* with its id failed and a snapshot that lists the id as running is complete
C36_Witness ==
  /\ lastCall.op = "Start"
  /\ lastCall.err = "AlreadyRunning"
  /\ SnapshotDone
  /\ \E o \in Allocated :
       /\ ExitedAlone(o)
       /\ lastCall.id = inst[o].ID
       /\ ListedRunning(inst[o].ID)
       /\ inst[o].LastCandleTime = 0

\* lines 79-92: some signal of the run is Long or Short and passes the
\* direction filter
SomeSignalEnters ==
  \E k \in 1..Len(bt.signals) :
    /\ bt.signals[k].Type \in {"Long", "Short"}
    /\ ~Filtered(bt.config,
                 IF bt.signals[k].Type = "Long" THEN "long" ELSE "short")

(***************************************************************************)
(* C37: In the Backtester's ledger the positions form a chain: every entry *)
(* except the last has exit reason "Trend Reversal" and its exit index and *)
(* exit price equal the next entry's entry index and entry price; only the *)
(* last entry can have exit reason "End of Period", and for non-empty      *)
(* candles and at least one actionable, non-filtered signal the last entry *)
(* always has it.                                                          *)
(***************************************************************************)
C37_LedgerIsAChain ==
  bt.pc \in {"metrics", "done"} =>
    LET ledger == bt.positions
        n == Len(ledger)
    IN  /\ \A k \in 1..(n - 1) :
             /\ ledger[k].ExitReason = "Trend Reversal"
             /\ ledger[k].ExitIndex = ledger[k + 1].EntryIndex
             /\ ledger[k].ExitPrice = ledger[k + 1].EntryPrice
        /\ \A k \in 1..n : ledger[k].ExitReason = "End of Period" => k = n
        /\ (bt.candles # <<>> /\ SomeSignalEnters)
             => /\ n > 0
                /\ ledger[n].ExitReason = "End of Period"

\* simulatePositions returned a ledger of a short closed by the signal that
\* opened the long closed at the end of the period
C37_Witness ==
  /\ bt.pc = "metrics"
  /\ Len(bt.positions) = 2
  /\ bt.positions[1].Side = "short"
  /\ bt.positions[2].Side = "long"
  /\ bt.positions[1].ExitReason = "Trend Reversal"
  /\ bt.positions[1].ExitIndex = bt.positions[2].EntryIndex
  /\ bt.positions[2].ExitReason = "End of Period"
  /\ bt.positions[2].ExitIndex > bt.positions[2].EntryIndex

NotPositive(x) == ~RatLess(Zero, x)

(***************************************************************************)
(* C38: In the metrics of every backtest winningTrades + losingTrades =    *)
(* totalTrades: a closed position with realized PnL exactly 0 or negative  *)
(* is counted as a losing trade, extends the current loss streak and       *)
(* resets the current win streak.                                          *)
(***************************************************************************)
C38_ZeroPnLCountsAsLoss ==
  bt.pc = "done" =>
    LET m == bt.result.Metrics
        pnls == PnLsOf(bt.result.Positions)
    IN  /\ m.winningTrades + m.losingTrades = m.totalTrades
        /\ m.totalTrades = Len(pnls)
        /\ m.losingTrades = Len(SelectSeq(pnls, NotPositive))
        /\ m.longestLossStreak = LongestRun(pnls, NotPositive)
        /\ m.longestWinStreak = LongestRun(pnls, Positive)

\* a position with PnL 0 between two wins: one loss, and win streak 1
C38_Witness ==
  /\ bt.pc = "done"
  /\ PnLsOf(bt.result.Positions) = <<Rat(100, 1), Zero, Rat(30, 1)>>
  /\ bt.result.Metrics.losingTrades = 1
  /\ bt.result.Metrics.longestLossStreak = 1
  /\ bt.result.Metrics.longestWinStreak = 1

\* what StopStrategy's own steps do: the price is the entry price of the
\* Position loaded at line 108, and ClosePosition writes that price and the
\* PnL at that price to the Position it loaded itself
StopClosesAtThePriceItRead ==
  [][\A o \in Objs :
       /\ (stop[o].pc = "price" /\ stop'[o].pc = "cp_get")
            => stop'[o].price = positions[o][inst[o].Position].EntryPrice
       /\ (stop[o].pc = "cp_mark" /\ stop'[o].pc = "cp_pnl")
            => /\ positions'[o][stop[o].pos].ExitPrice = stop[o].price
               /\ positions'[o][stop[o].pos].ExitReason = "Strategy Stopped"
       /\ (stop[o].pc = "cp_pnl" /\ stop'[o].pc = "done")
            => positions'[o][stop[o].pos].PnL
                 = RealizedPnL(positions[o][stop[o].pos], stop[o].price)]_vars

(***************************************************************************)
(* C39: A Position closed by StopStrategy is closed at its own entry       *)
(* price: when the ClosePosition call of StopStrategy has closed it, its   *)
(* exit price equals its entry price and its realized PnL is 0, whatever   *)
(* the latest market price was.                                            *)
(***************************************************************************)
C39_StopClosesAtEntryPrice ==
  [][\A o \in Objs :
       (stop[o].pc = "cp_pnl" /\ stop'[o].pc = "done")
         => LET pos == positions'[o][stop[o].pos] IN
            /\ pos.ExitPrice = pos.EntryPrice
            /\ pos.PnL = 0]_vars

=============================================================================
